---- MODULE Spec2Model ----
(***************************************************************************)
(* Model of the gene-editing spreadsheet transforms of                     *)
(* python_service/report_generator:                                        *)
(*   - MutationHighlighter.process_file   (mutation_highlighter.py)        *)
(*   - GeneEditingProcessor.parse_source_file / simplify_data              *)
(*   - sort_gene_editing_file             (gene_editing_processor.py)      *)
(*                                                                         *)
(* Text is a sequence of one-character strings, so that case, offsets,     *)
(* slicing and parsing are computed as the Python code computes them.      *)
(* An empty cell (None) is the empty text <<>>.                            *)
(***************************************************************************)
EXTENDS Integers, Sequences, FiniteSets, TLC

VARIABLES
    \* ---- MutationHighlighter.process_file ----
    hl_pc,                          \* "loop" while iterating rows, "done" after return
    ws,                             \* the worksheet: rows read so far, as rewritten
    ws_in,                          \* the same rows as load_workbook delivered them
    highlight_results,              \* List[HighlightResult]
    current_seq_id,
    current_has_target,
    current_target_pos,
    current_highlighted_mutations,
    current_wt_sequence,            \* self.current_wt_sequence
    hl_log,                         \* rows reported by print("[skip] ...")
    hl_report,                      \* the returned dictionary
    \* ---- GeneEditingProcessor.parse_source_file / simplify_data ----
    sp_pc,                          \* "parse", "parsed", "done"
    sp_grid,                        \* rows of the source worksheet read so far
    sequence_groups,                \* ordered list of {seq_id, ref_name, all_entries}
    sp_results,                     \* List[SimplifiedRow]
    sp_out,                         \* rows of the worksheet of the simplified workbook
    sp_summary,                     \* the dictionary returned by get_summary
    \* ---- sort_gene_editing_file ----
    rn_pc,                          \* "scan", "assign", "copy", "done"
    ws_src,                         \* rows of the source worksheet
    sequence_id_rows,               \* [(row_idx, orig_num, ref_name)]
    row_to_new_seq,                 \* row_idx -> new identifier
    new_seq_counter,
    ws_dst,                         \* rows of the destination worksheet
    rn_report,
    \* ---- sort_gene_editing_file applied to the workbook it saved ----
    ws_dst_again,                   \* rows of the destination worksheet of that run
    rn_report_again,                \* the dictionary that run returned
    \* ---- the files of one invocation ----
    input_path,                     \* what is found at input_path
    raised,                         \* the exception that ended the invocation
    output_file,                    \* TRUE once a workbook was saved at output_path
    \* ---- one call of MutationHighlighter._verify_mutation_with_wt ----
    vf_args,                        \* the WT sequence and the arguments of the call
    vf_result,                      \* the returned (status, actual, detail)
    \* ---- one call of GeneEditingProcessor._is_row_highlighted ----
    cf_pc,                          \* "idle", "returned"
    cf_args,                        \* the fills of the cells of the row
    cf_result,                      \* the returned (highlighted, colour)
    \* ---- one call of GeneEditingProcessor._extract_red_from_cell_with_position ----
    rt_pc,                          \* "idle", "returned"
    rt_cell,                        \* the cell given to the call
    rt_result                       \* the returned (red_text, start_position)

hlVars == <<hl_pc, ws, ws_in, highlight_results, current_seq_id, current_has_target,
            current_target_pos, current_highlighted_mutations,
            current_wt_sequence, hl_log, hl_report>>
spVars == <<sp_pc, sp_grid, sequence_groups, sp_results, sp_out>>
rnVars == <<rn_pc, ws_src, sequence_id_rows, row_to_new_seq, new_seq_counter,
            ws_dst, rn_report>>
fileVars == <<input_path, raised, output_file>>
vfVars == <<vf_args, vf_result>>
cfVars == <<cf_pc, cf_args, cf_result>>
rtVars == <<rt_pc, rt_cell, rt_result>>
raVars == <<ws_dst_again, rn_report_again>>
smVars == <<sp_summary>>
vars == <<hlVars, spVars, rnVars, fileVars, vfVars, cfVars, rtVars, raVars, smVars>>

-----------------------------------------------------------------------------
(* Bounds of the model *)

\* rows of one workbook given to the highlighter
MaxRows == 3
\* rows of one workbook given to the simplifier
MaxSimplifyRows == 4
\* rows of one workbook given to the renumberer
MaxRenumberRows == 4

\* longest sequence given to a call of _verify_mutation_with_wt
MaxVerifyLen == 3

-----------------------------------------------------------------------------
(* Text helpers: Python str operations on sequences of characters *)

Range(s) == {s[i] : i \in 1..Len(s)}

Min(a, b) == IF a < b THEN a ELSE b

Max(a, b) == IF a > b THEN a ELSE b

LowerLetters == <<"a", "b", "c", "d", "e", "f", "g", "n", "p", "r", "s", "t", "w", "x">>

UpperLetters == <<"A", "B", "C", "D", "E", "F", "G", "N", "P", "R", "S", "T", "W", "X">>

LowerSet == Range(LowerLetters)

UpperSet == Range(UpperLetters)

\* the upper-case letter of each lower-case letter, and the converse
ToUpper == [c \in LowerSet |->
               UpperLetters[CHOOSE i \in 1..Len(LowerLetters) : LowerLetters[i] = c]]

ToLower == [c \in UpperSet |->
               LowerLetters[CHOOSE i \in 1..Len(UpperLetters) : UpperLetters[i] = c]]

\* str.islower() of one character
IsLowerChar(c) == c \in LowerSet

\* str.upper() of one character
UpperChar(c) == IF c \in LowerSet THEN ToUpper[c] ELSE c

\* str.lower() of one character
LowerChar(c) == IF c \in UpperSet THEN ToLower[c] ELSE c

\* str.upper()
UpperStr(s) == [i \in 1..Len(s) |-> UpperChar(s[i])]

\* s[a:b] with 0 <= a, Python slice semantics (clipped to the text)
Slice(s, a, b) == SubSeq(s, a + 1, Min(b, Len(s)))

\* str.strip(): removes leading and trailing blanks
RECURSIVE LStrip(_)
LStrip(s) == IF s # <<>> /\ Head(s) = " " THEN LStrip(Tail(s)) ELSE s

RECURSIVE RStrip(_)
RStrip(s) ==
    IF s # <<>> /\ s[Len(s)] = " " THEN RStrip(SubSeq(s, 1, Len(s) - 1)) ELSE s

Strip(s) == RStrip(LStrip(s))

\* str.find(): lowest 0-based offset of needle in hay, -1 when absent
Find(hay, needle) ==
    LET hits == {i \in 0..(Len(hay) - Len(needle)) :
                    SubSeq(hay, i + 1, i + Len(needle)) = needle}
    IN  IF hits = {} THEN -1
        ELSE CHOOSE i \in hits : \A j \in hits : i <= j

\* "".join(parts)
RECURSIVE Concat(_)
Concat(parts) == IF parts = <<>> THEN <<>> ELSE Head(parts) \o Concat(Tail(parts))

\* sep.join(parts)
RECURSIVE Join(_, _)
Join(sep, parts) ==
    IF parts = <<>> THEN <<>>
    ELSE IF Len(parts) = 1 THEN Head(parts)
    ELSE Head(parts) \o sep \o Join(sep, Tail(parts))

Bases == {"A", "T", "C", "G"}

Digits == {"0", "1", "2", "3", "4", "5", "6", "7", "8", "9"}

\* number of leading characters of s that belong to set
RECURSIVE LeadingIn(_, _)
LeadingIn(s, set) ==
    IF s # <<>> /\ Head(s) \in set THEN 1 + LeadingIn(Tail(s), set) ELSE 0

-----------------------------------------------------------------------------
(* The grid: a row is a sequence of cells, columns A..I.                   *)
(* A cell has its value as text, the runs of a CellRichText value          *)
(* (<<>> for a plain value), the cell font colour and the fill colour.     *)
(* The value of a numeric cell is kept as the text str() gives for it,     *)
(* with the type of the value and the number format of the cell.           *)

\* openpyxl's default fill colour: start_color.rgb of a cell without fill
NoFill == <<"0", "0", "0", "0", "0", "0", "0", "0">>

PlainCell(text) ==
    [v |-> text, runs |-> <<>>, font |-> <<>>, fill |-> NoFill,
     type |-> "str", number_format |-> "General"]

\* a cell holding the float written as text, shown with the number format fmt
FloatCell(text, fmt) == [PlainCell(text) EXCEPT !.type = "float", !.number_format = fmt]

\* the characters of the number formats of the model's cells
FormatText(fmt) ==
    CASE fmt = "0.00%" -> <<"0", ".", "0", "0", "%">>
      [] fmt = "0%"    -> <<"0", "%">>
      [] OTHER         -> <<"G", "e", "n", "e", "r", "a", "l">>

MkRow(a, b, c, d, e, f, g, h, i) ==
    <<PlainCell(a), PlainCell(b), PlainCell(c), PlainCell(d), PlainCell(e),
      PlainCell(f), PlainCell(g), PlainCell(h), PlainCell(i)>>

\* row_data = [cell.value for cell in row]
RowData(row) == [k \in 1..Len(row) |-> row[k].v]

\* all(v is None or str(v).strip() == '' for v in row_data)
IsEmptyRow(row) == \A k \in 1..Len(row) : Strip(row[k].v) = <<>>

-----------------------------------------------------------------------------
(* MutationHighlighter (mutation_highlighter.py) *)

\* the configured target window (constructor argument target_sequence,
\* stored upper-cased); the model runs the highlighter with a 3-base target
target_sequence == UpperStr(<<"C", "G", "A">>)

cYellow == <<"y", "e", "l", "l", "o", "w">>

cGreen == <<"g", "r", "e", "e", "n">>

cOrange == <<"o", "r", "a", "n", "g", "e">>

\* HIGHLIGHT_COLORS: colour name -> PatternFill start colour; <<>> is .get() -> None
HIGHLIGHT_COLORS(color) ==
    CASE color = cYellow -> <<"F", "F", "F", "F", "0", "0">>
      [] color = cGreen  -> <<"9", "2", "D", "0", "5", "0">>
      [] color = cOrange -> <<"F", "F", "C", "0", "0", "0">>
      [] OTHER -> <<>>

\* MUTATION_COLOR_MAP as the ordered items of the dict
MUTATION_COLOR_MAP ==
    << <<(<<"C", "-", ">", "T">>), cYellow>>,
       <<(<<"A", "-", ">", "G">>), cGreen>>,
       <<(<<"G", "-", ">", "A">>), cOrange>>,
       <<(<<"T", "-", ">", "C">>), cOrange>> >>

\* re.match(r'^\d+-ref', val): digits, then "-ref"; seq_id is the digits
\* (sequence_id_pattern ^(\d+)-)
IsSequenceHeader(row) ==
    LET val == Strip(row[1].v)
        n   == LeadingIn(val, Digits)
    IN  IF row[1].v = <<>> THEN [is_header |-> FALSE, seq_id |-> <<>>]
        ELSE IF n >= 1 /\ SubSeq(val, n + 1, n + 4) = <<"-", "r", "e", "f">>
             THEN [is_header |-> TRUE, seq_id |-> SubSeq(val, 1, n)]
             ELSE [is_header |-> FALSE, seq_id |-> <<>>]

FindTargetSequencePosition(sequence) ==
    IF sequence = <<>> THEN <<-1, -1>>
    ELSE LET pos == Find(UpperStr(sequence), target_sequence)
         IN  IF pos = -1 THEN <<-1, -1>>
             ELSE <<pos, pos + Len(target_sequence)>>

\* re.match(r'([ATCG])->([ATCG])', s): a match at the start of s
MatchArrow(s) ==
    IF Len(s) >= 4 /\ s[1] \in Bases /\ s[2] = "-" /\ s[3] = ">" /\ s[4] \in Bases
    THEN [ok |-> TRUE, from |-> s[1], to |-> s[4]]
    ELSE [ok |-> FALSE, from |-> "", to |-> ""]

\* CheckMutationInPosition looking for the to-base without lower-casing it
CheckMutationUppercaseBase(sequence, mutation_type, target_pos) ==
    LET start == target_pos[1]
        end   == target_pos[2]
        m     == MatchArrow(UpperStr(mutation_type))
    IN  IF sequence = <<>> \/ mutation_type = <<>> THEN FALSE
        ELSE IF start < 0 \/ end > Len(sequence) THEN FALSE
        ELSE IF ~m.ok THEN FALSE
        ELSE m.to \in Range(Slice(sequence, start, end))

\* _check_mutation_in_position
CheckMutationInPosition(sequence, mutation_type, target_pos) ==
    LET start == target_pos[1]
        end   == target_pos[2]
        m     == MatchArrow(UpperStr(mutation_type))
    IN  IF sequence = <<>> \/ mutation_type = <<>> THEN FALSE
        ELSE IF start < 0 \/ end > Len(sequence) THEN FALSE
        ELSE IF ~m.ok THEN FALSE
        ELSE LowerChar(m.to) \in Range(Slice(sequence, start, end))

\* the text runs written by _apply_red_font_to_20bp; a font colour given as
\* RRGGBB is stored by the Color object as 00RRGGBB
RedRuns(sequence, target_pos) ==
    LET start == target_pos[1]
        end   == target_pos[2]
        red_font   == <<"0", "0">> \o <<"F", "F", "0", "0", "0", "0">>
        black_font == <<"0", "0">> \o <<"0", "0", "0", "0", "0", "0">>
    IN  (IF start > 0
         THEN <<[font |-> black_font, text |-> Slice(sequence, 0, start)]>>
         ELSE <<>>)
        \o <<[font |-> red_font, text |-> Slice(sequence, start, end)]>>
        \o (IF end < Len(sequence)
            THEN <<[font |-> black_font,
                    text |-> Slice(sequence, end, Len(sequence))]>>
            ELSE <<>>)

\* _apply_red_font_to_20bp: the cell after the call (cell.value = CellRichText(parts))
ApplyRedFontTo20bp(cell, sequence, target_pos) ==
    IF sequence = <<>> THEN cell
    ELSE IF target_pos[1] < 0 \/ target_pos[2] > Len(sequence) THEN cell
    ELSE [cell EXCEPT !.runs = RedRuns(sequence, target_pos),
                      !.v = Concat([k \in 1..Len(RedRuns(sequence, target_pos)) |->
                                       RedRuns(sequence, target_pos)[k].text])]

\* GetHighlightColor answering yellow for every code of the map
GetHighlightColorYellow(mutation_type) ==
    LET normalized == SelectSeq(UpperStr(mutation_type), LAMBDA c : c # " ")
        hits == {k \in 1..Len(MUTATION_COLOR_MAP) :
                    UpperStr(MUTATION_COLOR_MAP[k][1]) = normalized}
    IN  IF mutation_type = <<>> \/ hits = {} THEN <<>> ELSE cYellow

\* _get_highlight_color: first item of the map equal to the normalized code
GetHighlightColor(mutation_type) ==
    LET normalized == SelectSeq(UpperStr(mutation_type), LAMBDA c : c # " ")
        hits == {k \in 1..Len(MUTATION_COLOR_MAP) :
                    UpperStr(MUTATION_COLOR_MAP[k][1]) = normalized}
    IN  IF mutation_type = <<>> \/ hits = {} THEN <<>>
        ELSE MUTATION_COLOR_MAP[CHOOSE k \in hits : \A j \in hits : k <= j][2]

Separators == {",", ";", " "}

\* re.split(r'[,;\s]+', value), without the empty parts (skipped by `if not part`)
RECURSIVE SplitParts(_, _, _)
SplitParts(s, cur, acc) ==
    IF s = <<>> THEN (IF cur = <<>> THEN acc ELSE Append(acc, cur))
    ELSE IF Head(s) \in Separators
         THEN SplitParts(Tail(s), <<>>, IF cur = <<>> THEN acc ELSE Append(acc, cur))
         ELSE SplitParts(Tail(s), Append(cur, Head(s)), acc)

\* the characters of the class [-\u2013>]; "~" stands for the en dash U+2013
ArrowChars == {"-", "~", ">"}

\* re.match(r'([ATCG])[-\u2013>]+([ATCG])', part) and the normalized "X->Y"
NormalizePart(part) ==
    LET p == UpperStr(Strip(part))
        n == IF p = <<>> THEN 0 ELSE LeadingIn(Tail(p), ArrowChars)
    IN  IF p = <<>> \/ p = <<"-">> THEN <<>>
        ELSE IF p[1] \in Bases /\ n >= 1 /\ Len(p) >= n + 2 /\ p[n + 2] \in Bases
             THEN << <<p[1], "-", ">", p[n + 2]>> >>
             ELSE <<>>

RECURSIVE NormalizeAll(_)
NormalizeAll(parts) ==
    IF parts = <<>> THEN <<>>
    ELSE NormalizePart(Head(parts)) \o NormalizeAll(Tail(parts))

ParseMutationsFromColumn(value) ==
    IF value = <<>> \/ Strip(value) = <<"-">> THEN <<>>
    ELSE NormalizeAll(SplitParts(value, <<>>, <<>>))

\* set(f_mutations) & set(g_mutations)
GetMutationIntersection(f_mutations, g_mutations) ==
    Range(f_mutations) \cap Range(g_mutations)

\* list(set): every iteration order of the set is a possible list
Orders(set) ==
    {o \in [1..Cardinality(set) -> set] : \A x \in set : \E k \in DOMAIN o : o[k] = x}

\* ActualMutationsFound stopping at the first lowercase position
ActualMutationsFirstOnly(wt_region, mut_region) ==
    LET n    == Min(Len(wt_region), Len(mut_region))
        lows == {i \in 1..n : IsLowerChar(mut_region[i])}
        i    == CHOOSE x \in lows : \A y \in lows : x <= y
    IN  IF lows = {} THEN <<>>
        ELSE <<[position |-> i - 1,
                wt_base  |-> UpperChar(wt_region[i]),
                mut_base |-> UpperChar(mut_region[i]),
                actual   |-> <<UpperChar(wt_region[i]), "-", ">",
                               UpperChar(mut_region[i])>>]>>

\* the lowercase positions of the window with the WT base at each
ActualMutationsFound(wt_region, mut_region) ==
    LET n   == Min(Len(wt_region), Len(mut_region))
        at(i) == [position |-> i - 1,
                  wt_base  |-> UpperChar(wt_region[i]),
                  mut_base |-> UpperChar(mut_region[i]),
                  actual   |-> <<UpperChar(wt_region[i]), "-", ">",
                                 UpperChar(mut_region[i])>>]
        all == [i \in 1..n |-> at(i)]
    IN  SelectSeq(all, LAMBDA m : IsLowerChar(mut_region[m.position + 1]))

VerifyMutationWithWt(wt_sequence, mutated_sequence, claimed_mutation, target_pos) ==
    LET start == target_pos[1]
        end   == target_pos[2]
        m     == MatchArrow(UpperStr(claimed_mutation))
        found == ActualMutationsFound(Slice(wt_sequence, start, end),
                                      Slice(mutated_sequence, start, end))
        same_to == SelectSeq(found, LAMBDA x : x.mut_base = m.to)
    IN  IF wt_sequence = <<>> \/ mutated_sequence = <<>>
        THEN [status |-> "unknown", actual |-> <<>>, detail |-> "no_wt_sequence"]
        ELSE IF start < 0 \/ end > Len(wt_sequence) \/ end > Len(mutated_sequence)
        THEN [status |-> "unknown", actual |-> <<>>, detail |-> "out_of_range"]
        ELSE IF ~m.ok
        THEN [status |-> "unknown", actual |-> <<>>, detail |-> "unparsable"]
        ELSE IF found = <<>>
        THEN [status |-> "unknown", actual |-> <<>>, detail |-> "no_lowercase"]
        ELSE IF \E k \in 1..Len(found) :
                    found[k].wt_base = m.from /\ found[k].mut_base = m.to
        THEN [status |-> "correct", actual |-> <<m.from, "-", ">", m.to>>,
              detail |-> "verified"]
        ELSE IF same_to # <<>>
        THEN [status |-> "error", actual |-> found[1].actual,
              detail |-> "wrong_wt_base"]
        ELSE [status |-> "error",
              actual |-> Join(<<",", " ">>, [k \in 1..Len(found) |-> found[k].actual]),
              detail |-> "other_mutation"]

-----------------------------------------------------------------------------
(* MutationHighlighter.process_file: the loop over the rows *)

\* str(row_data[k]).strip() if len(row_data) > k and row_data[k] else ""
ColValue(row, k) == IF Len(row) > k /\ row[k + 1].v # <<>> THEN Strip(row[k + 1].v) ELSE <<>>

\* d_value == 'WT' and e_value == 'WT'
IsWTRow(row) == ColValue(row, 3) = <<"W", "T">> /\ ColValue(row, 4) = <<"W", "T">>

\* f_value in ['-', ''] and g_value in ['-', '']
NoDetail(row) ==
    /\ ColValue(row, 5) \in {<<"-">>, <<>>}
    /\ ColValue(row, 6) \in {<<"-">>, <<>>}

CommonMutations(row) ==
    GetMutationIntersection(ParseMutationsFromColumn(ColValue(row, 5)),
                            ParseMutationsFromColumn(ColValue(row, 6)))

\* Qualifies without the test `mutation in current_highlighted_mutations`
QualifiesIgnoringUsed(mutation, used, h_value, target_pos) ==
    /\ GetHighlightColor(mutation) # <<>>
    /\ CheckMutationInPosition(h_value, mutation, target_pos)

\* the candidates of the loop `for mutation in common_mutations`, in list order:
\* not yet highlighted in the group, in the colour table, lowercase base in the window
Qualifies(mutation, used, h_value, target_pos) ==
    /\ mutation \notin used
    /\ GetHighlightColor(mutation) # <<>>
    /\ CheckMutationInPosition(h_value, mutation, target_pos)

\* matched_mutation: the first candidate of the list, <<>> for None
MatchedMutation(common_list, used, h_value, target_pos) ==
    LET hits == {k \in 1..Len(common_list) :
                    Qualifies(common_list[k], used, h_value, target_pos)}
    IN  IF hits = {} THEN <<>>
        ELSE common_list[CHOOSE k \in hits : \A j \in hits : k <= j]

\* VerificationRejects without the rejection of "error"
VerificationNeverRejects(verify_status) == FALSE

\* if verify_status == "error": continue
VerificationRejects(verify_status) == verify_status = "error"

\* for cell in row: cell.fill = fill, then the H cell is rewritten
HighlightedRow(row, fill, h_value, target_pos) ==
    LET filled == [k \in 1..Len(row) |-> [row[k] EXCEPT !.fill = fill]]
    IN  IF Len(row) >= 8
        THEN [filled EXCEPT ![8] = ApplyRedFontTo20bp(filled[8], h_value, target_pos)]
        ELSE filled

tWT == <<"W", "T">>

tSNP == <<"S", "N", "P">>

tDash == <<"-">>

tCT == <<"C", "-", ">", "T">>

tGA == <<"G", "-", ">", "A">>

tGT == <<"G", "-", ">", "T">>

tAG == <<"A", "-", ">", "G">>

tTC == <<"T", "-", ">", "C">>

\* the rows a workbook given to the highlighter is made of
HLRows ==
    { MkRow(<<"7", "-", "r", "e", "f", "A">>, <<>>, <<>>, <<>>, <<>>, <<>>, <<>>, <<>>, <<>>),
      MkRow(<<>>, <<>>, <<>>, <<>>, <<>>, <<>>, <<>>, <<>>, <<>>),
      \* WT rows: target at offset 1, target (lowercase) at offset 0, no target
      MkRow(<<>>, <<"9">>, <<>>, tWT, tWT, tDash, tDash, <<"T", "C", "G", "A", "T">>, <<>>),
      MkRow(<<>>, <<"9">>, <<>>, tWT, tWT, tDash, tDash, <<"c", "g", "a", "T", "T">>, <<>>),
      MkRow(<<>>, <<"9">>, <<>>, tWT, tWT, tDash, tDash, <<"T", "T", "T", "T", "T">>, <<>>),
      \* C->T on both sides (right side written c-t), lowercase t at offset 1
      MkRow(<<>>, <<"5">>, <<>>, tSNP, tSNP, tCT, <<"c", "-", "t">>,
            <<"T", "t", "G", "A", "T">>, <<>>),
      \* G->A on both sides, lowercase a at offset 2
      MkRow(<<>>, <<"5">>, <<>>, tSNP, tSNP, tGA, tGA, <<"T", "C", "a", "A", "T">>, <<>>),
      \* A->G on both sides, lowercase g at offset 3
      MkRow(<<>>, <<"5">>, <<>>, tSNP, tSNP, tAG, tAG, <<"T", "C", "G", "g", "T">>, <<>>),
      \* two codes on both sides, lowercase a at offset 2 and t at offset 3
      MkRow(<<>>, <<"5">>, <<>>, tSNP, tSNP, tCT \o <<",">> \o tGA, tGA \o <<";", " ">> \o tCT,
            <<"T", "C", "a", "t", "T">>, <<>>),
      \* C->T on both sides, sequence shorter than the window
      MkRow(<<>>, <<"5">>, <<>>, tSNP, tSNP, tCT, tCT, <<"T", "t">>, <<>>),
      \* a code outside the colour table
      MkRow(<<>>, <<"5">>, <<>>, tSNP, tSNP, tGT, tGT, <<"T", "C", "t", "A", "T">>, <<>>),
      \* different codes left and right
      MkRow(<<>>, <<"5">>, <<>>, tSNP, tWT, tCT, tGA, <<"T", "t", "G", "A", "T">>, <<>>),
      \* no detail at all
      MkRow(<<>>, <<"5">>, <<>>, <<"1", "D">>, <<"1", "D">>, tDash, <<>>,
            <<"T", "C", "G", "T">>, <<>>),
      \* a detail that is no substitution code
      MkRow(<<>>, <<"5">>, <<>>, tSNP, tSNP, <<"T">>, tDash, <<"T", "t", "G", "A", "T">>, <<>>) }

NoReport == [success |-> FALSE]

\* what an invocation can find at input_path: nothing, a file of size 0, a file
\* that is no readable workbook, a file whose extension openpyxl does not
\* support, or a workbook
FileConditions == {"missing", "empty", "corrupt", "unsupported", "workbook"}

\* no exception raised
NoError == [type |-> "", message |-> ""]

\* os.path.exists(input_path)
PathExists(file) == file # "missing"

\* os.path.getsize(input_path)
PathSize(file) == IF file = "empty" THEN 0 ELSE 1

\* load_workbook(input_path) raises: openpyxl refuses a file that is no zip
\* archive of a workbook, and a path whose extension it does not support
LoadWorkbookRaises(file) == file \in {"empty", "corrupt", "unsupported"}

InitFiles ==
    /\ input_path \in FileConditions
    /\ raised = NoError
    /\ output_file = FALSE

InitHL ==
    /\ hl_pc = "open"
    /\ ws = <<>>
    /\ ws_in = <<>>
    /\ highlight_results = <<>>
    /\ current_seq_id = <<>>
    /\ current_has_target = FALSE
    /\ current_target_pos = <<-1, -1>>
    /\ current_highlighted_mutations = {}
    /\ current_wt_sequence = <<>>
    /\ hl_log = <<>>
    /\ hl_report = NoReport

\* HLOpen without the checks of the file
HLOpenUnchecked ==
    /\ hl_pc = "open"
    /\ hl_pc' = "loop"
    /\ UNCHANGED <<ws, ws_in, highlight_results, current_seq_id, current_has_target,
                   current_target_pos, current_highlighted_mutations,
                   current_wt_sequence, hl_log, hl_report, fileVars>>

\* lines 373-387: the checks of the input file and load_workbook
HLOpen ==
    /\ hl_pc = "open"
    /\ IF ~PathExists(input_path)
       THEN /\ raised' = [type |-> "FileNotFoundError", message |-> "file does not exist"]
            /\ hl_pc' = "failed"
       ELSE IF PathSize(input_path) = 0
       THEN /\ raised' = [type |-> "ValueError", message |-> "file is empty"]
            /\ hl_pc' = "failed"
       ELSE IF LoadWorkbookRaises(input_path)
       THEN /\ raised' = [type |-> "ValueError", message |-> "cannot read Excel file"]
            /\ hl_pc' = "failed"
       ELSE /\ hl_pc' = "loop"
            /\ UNCHANGED raised
    /\ UNCHANGED <<ws, ws_in, highlight_results, current_seq_id, current_has_target,
                   current_target_pos, current_highlighted_mutations,
                   current_wt_sequence, hl_log, hl_report, input_path, output_file>>

\* the guard of one more iteration of `for row_idx, row in enumerate(ws.iter_rows())`
HLNextRow(row) == hl_pc = "loop" /\ Len(ws) < MaxRows /\ row \in HLRows

\* HLKeep giving every row the loop passes over a white fill
HLKeepWhitened(row) ==
    /\ ws' = Append(ws, [k \in 1..Len(row) |->
                            [row[k] EXCEPT !.fill = [c \in 1..8 |-> "F"]]])
    /\ ws_in' = Append(ws_in, row)
    /\ UNCHANGED <<hl_pc, highlight_results, hl_report>>

\* a row the loop leaves as it is
HLKeep(row) ==
    /\ ws' = Append(ws, row)
    /\ ws_in' = Append(ws_in, row)
    /\ UNCHANGED <<hl_pc, highlight_results, hl_report>>

\* ReadHeader without the reset of the anchor
ReadHeaderKeepsAnchor(row) ==
    /\ HLNextRow(row)
    /\ IsSequenceHeader(row).is_header
    /\ current_seq_id' = IsSequenceHeader(row).seq_id
    /\ current_highlighted_mutations' = {}
    /\ HLKeep(row)
    /\ UNCHANGED <<current_has_target, current_target_pos, current_wt_sequence, hl_log>>

\* if is_header: reset the state of the group, continue
ReadHeader(row) ==
    /\ HLNextRow(row)
    /\ IsSequenceHeader(row).is_header
    /\ current_seq_id' = IsSequenceHeader(row).seq_id
    /\ current_has_target' = FALSE
    /\ current_target_pos' = <<-1, -1>>
    /\ current_highlighted_mutations' = {}
    /\ HLKeep(row)
    /\ UNCHANGED <<current_wt_sequence, hl_log>>

SkipEmptyRow(row) ==
    /\ HLNextRow(row)
    /\ ~IsSequenceHeader(row).is_header
    /\ IsEmptyRow(row)
    /\ HLKeep(row)
    /\ UNCHANGED <<current_seq_id, current_has_target, current_target_pos,
                   current_highlighted_mutations, current_wt_sequence, hl_log>>

\* the row reaches the column reads of lines 415-419
IsDataRow(row) == ~IsSequenceHeader(row).is_header /\ ~IsEmptyRow(row)

ReadWTRow(row) ==
    /\ HLNextRow(row)
    /\ IsDataRow(row)
    /\ IsWTRow(row)
    /\ LET pos == FindTargetSequencePosition(ColValue(row, 7))
       IN  IF pos[1] >= 0
           THEN /\ current_has_target' = TRUE
                /\ current_target_pos' = pos
                /\ current_wt_sequence' = ColValue(row, 7)
           ELSE UNCHANGED <<current_has_target, current_target_pos, current_wt_sequence>>
    /\ HLKeep(row)
    /\ UNCHANGED <<current_seq_id, current_highlighted_mutations, hl_log>>

\* the `continue` statements of lines 431-452
SkipCandidate(row) ==
    /\ HLNextRow(row)
    /\ IsDataRow(row)
    /\ ~IsWTRow(row)
    /\ \/ ~current_has_target
       \/ NoDetail(row)
       \/ CommonMutations(row) = {}
    /\ HLKeep(row)
    /\ UNCHANGED <<current_seq_id, current_has_target, current_target_pos,
                   current_highlighted_mutations, current_wt_sequence, hl_log>>

\* the row reaches the loop over common_mutations, iterated in the order common_list
IsCandidate(row, common_list) ==
    /\ IsDataRow(row)
    /\ ~IsWTRow(row)
    /\ current_has_target
    /\ ~NoDetail(row)
    /\ CommonMutations(row) # {}
    /\ common_list \in Orders(CommonMutations(row))

\* if not matched_mutation or not highlight_color: continue
SkipNoMatch(row) ==
    /\ HLNextRow(row)
    /\ \E common_list \in Orders(CommonMutations(row)) :
          /\ IsCandidate(row, common_list)
          /\ MatchedMutation(common_list, current_highlighted_mutations,
                             ColValue(row, 7), current_target_pos) = <<>>
    /\ HLKeep(row)
    /\ UNCHANGED <<current_seq_id, current_has_target, current_target_pos,
                   current_highlighted_mutations, current_wt_sequence, hl_log>>

\* verification of the matched code against the WT row
Verdict(row, common_list) ==
    VerifyMutationWithWt(current_wt_sequence, ColValue(row, 7),
                         MatchedMutation(common_list, current_highlighted_mutations,
                                         ColValue(row, 7), current_target_pos),
                         current_target_pos)

SkipVerifyError(row) ==
    /\ HLNextRow(row)
    /\ \E common_list \in Orders(CommonMutations(row)) :
          /\ IsCandidate(row, common_list)
          /\ MatchedMutation(common_list, current_highlighted_mutations,
                             ColValue(row, 7), current_target_pos) # <<>>
          /\ VerificationRejects(Verdict(row, common_list).status)
          /\ hl_log' = Append(hl_log,
                              [row |-> Len(ws) + 1,
                               claimed |-> MatchedMutation(common_list,
                                              current_highlighted_mutations,
                                              ColValue(row, 7), current_target_pos),
                               detail |-> Verdict(row, common_list).detail])
    /\ HLKeep(row)
    /\ UNCHANGED <<current_seq_id, current_has_target, current_target_pos,
                   current_highlighted_mutations, current_wt_sequence>>

ApplyHighlight(row) ==
    /\ HLNextRow(row)
    /\ \E common_list \in Orders(CommonMutations(row)) :
          LET matched == MatchedMutation(common_list, current_highlighted_mutations,
                                         ColValue(row, 7), current_target_pos)
              color   == GetHighlightColor(matched)
              fill    == HIGHLIGHT_COLORS(color)
              verdict == Verdict(row, common_list)
          IN  /\ IsCandidate(row, common_list)
              /\ matched # <<>>
              /\ ~VerificationRejects(verdict.status)
              /\ IF fill # <<>>
                 THEN /\ ws' = Append(ws, HighlightedRow(row, fill, ColValue(row, 7),
                                                         current_target_pos))
                      /\ current_highlighted_mutations' =
                             current_highlighted_mutations \cup {matched}
                      /\ highlight_results' = Append(highlight_results,
                             [row_index |-> Len(ws) + 1,
                              sequence_id |-> current_seq_id,
                              mutation_type |-> matched,
                              highlight_color |-> color,
                              f_value |-> ColValue(row, 5),
                              g_value |-> ColValue(row, 6),
                              verification_status |-> verdict.status,
                              actual_mutation |-> verdict.actual,
                              verification_detail |-> verdict.detail])
                 ELSE /\ ws' = Append(ws, row)
                      /\ UNCHANGED <<current_highlighted_mutations, highlight_results>>
    /\ ws_in' = Append(ws_in, row)
    /\ UNCHANGED <<hl_pc, hl_report, current_seq_id, current_has_target,
                   current_target_pos, current_wt_sequence, hl_log>>

\* number of results with a given value of a field
CountWhere(results, P(_)) == Len(SelectSeq(results, P))

\* lines 507-560: save the workbook, compute the statistics, return the report
FinishHighlight ==
    /\ hl_pc = "loop"
    /\ hl_pc' = "done"
    /\ hl_report' =
         [success |-> TRUE,
          total_highlighted |-> Len(highlight_results),
          target_sequence |-> target_sequence,
          color_statistics |->
              [c \in {highlight_results[k].highlight_color : k \in 1..Len(highlight_results)} |->
                  CountWhere(highlight_results, LAMBDA r : r.highlight_color = c)],
          mutation_statistics |->
              [m \in {highlight_results[k].mutation_type : k \in 1..Len(highlight_results)} |->
                  CountWhere(highlight_results, LAMBDA r : r.mutation_type = m)],
          verification_statistics |->
              [s \in {"correct", "error", "unknown"} |->
                  CountWhere(highlight_results, LAMBDA r : r.verification_status = s)],
          error_mutations |->
              SelectSeq(highlight_results, LAMBDA r : r.verification_status = "error"),
          highlighted_rows |-> highlight_results]
    /\ output_file' = TRUE
    /\ UNCHANGED <<ws, ws_in, highlight_results, current_seq_id, current_has_target,
                   current_target_pos, current_highlighted_mutations,
                   current_wt_sequence, hl_log, input_path, raised>>

InitSP ==
    /\ sp_pc = "open"
    /\ sp_grid = <<>>
    /\ sequence_groups = <<>>
    /\ sp_results = <<>>
    /\ sp_out = <<>>

InitRN ==
    /\ rn_pc = "open"
    /\ ws_src = <<>>
    /\ sequence_id_rows = <<>>
    /\ row_to_new_seq = <<>>
    /\ new_seq_counter = 0
    /\ ws_dst = <<>>
    /\ rn_report = NoReport

\* get_summary not yet called
InitSM == sp_summary = NoReport

\* sort_gene_editing_file not yet applied to its own output
InitRA ==
    /\ ws_dst_again = <<>>
    /\ rn_report_again = NoReport

\* no call of _verify_mutation_with_wt made yet
InitVF ==
    /\ vf_args = [wt_sequence |-> <<>>, mutated_sequence |-> <<>>,
                  claimed_mutation |-> <<>>, target_pos |-> <<-1, -1>>]
    /\ vf_result = [status |-> "", actual |-> <<>>, detail |-> ""]

\* no call of _is_row_highlighted made yet
InitCF ==
    /\ cf_pc = "idle"
    /\ cf_args = [first |-> NoFill, prefix |-> <<>>, rgb |-> <<0, 0, 0>>]
    /\ cf_result = [highlighted |-> FALSE, color |-> <<>>]

\* no call of _extract_red_from_cell_with_position made yet
InitRT ==
    /\ rt_pc = "idle"
    /\ rt_cell = PlainCell(<<>>)
    /\ rt_result = [text |-> <<>>, start |-> -1]

Init == InitHL /\ InitSP /\ InitRN /\ InitFiles /\ InitVF /\ InitCF /\ InitRT /\ InitRA /\ InitSM

\* one run of MutationHighlighter.process_file
Next ==
    \/ HLOpen /\ UNCHANGED <<smVars, raVars, rtVars, cfVars, vfVars, spVars, rnVars>>
    \/ \E row \in HLRows : ReadHeader(row) /\ UNCHANGED <<smVars, raVars, rtVars, cfVars, vfVars, spVars, rnVars, fileVars>>
    \/ \E row \in HLRows : SkipEmptyRow(row) /\ UNCHANGED <<smVars, raVars, rtVars, cfVars, vfVars, spVars, rnVars, fileVars>>
    \/ \E row \in HLRows : ReadWTRow(row) /\ UNCHANGED <<smVars, raVars, rtVars, cfVars, vfVars, spVars, rnVars, fileVars>>
    \/ \E row \in HLRows : SkipCandidate(row) /\ UNCHANGED <<smVars, raVars, rtVars, cfVars, vfVars, spVars, rnVars, fileVars>>
    \/ \E row \in HLRows : SkipNoMatch(row) /\ UNCHANGED <<smVars, raVars, rtVars, cfVars, vfVars, spVars, rnVars, fileVars>>
    \/ \E row \in HLRows : SkipVerifyError(row) /\ UNCHANGED <<smVars, raVars, rtVars, cfVars, vfVars, spVars, rnVars, fileVars>>
    \/ \E row \in HLRows : ApplyHighlight(row) /\ UNCHANGED <<smVars, raVars, rtVars, cfVars, vfVars, spVars, rnVars, fileVars>>
    \/ FinishHighlight /\ UNCHANGED <<smVars, raVars, rtVars, cfVars, vfVars, spVars, rnVars>>

Spec == Init /\ [][Next]_vars

-----------------------------------------------------------------------------
(* Reading the highlighter's worksheet back: groups and anchors of the rows *)

HLIsHeader(i) == IsSequenceHeader(ws[i]).is_header

\* the group of row i: the number of header rows up to and including row i
HLGroupOf(i) == Cardinality({j \in 1..i : HLIsHeader(j)})

\* the WT rows of row i's group that precede row i and contain the target window
AnchorRows(i) ==
    {w \in 1..(i - 1) :
        /\ HLGroupOf(w) = HLGroupOf(i)
        /\ ~HLIsHeader(w)
        /\ ColValue(ws[w], 3) = tWT /\ ColValue(ws[w], 4) = tWT
        /\ Find(UpperStr(ColValue(ws[w], 7)), target_sequence) >= 0}

HasAnchor(i) == AnchorRows(i) # {}

\* the anchoring WT row in force at row i: the latest one
AnchorRow(i) == CHOOSE w \in AnchorRows(i) : \A x \in AnchorRows(i) : x <= w

AnchorSeq(i) == ColValue(ws[AnchorRow(i)], 7)

AnchorStart(i) == Find(UpperStr(AnchorSeq(i)), target_sequence)

AnchorEnd(i) == AnchorStart(i) + Len(target_sequence)

\* the rows process_file reports in highlighted_rows
HighlightedIdx == {highlight_results[k].row_index : k \in 1..Len(highlight_results)}

ResultOf(i) == highlight_results[CHOOSE k \in 1..Len(highlight_results) :
                                    highlight_results[k].row_index = i]

RowIsFilled(i) == \E k \in 1..Len(ws[i]) : ws[i][k].fill # NoFill

RowHasRuns(i) == \E k \in 1..Len(ws[i]) : ws[i][k].runs # <<>>

-----------------------------------------------------------------------------
(* C1 *)

\* C1: within one group (the rows between one header row and the next) no two
\* highlighted rows carry the same mutation_type.
C1_OncePerGroup ==
    \A a, b \in 1..Len(highlight_results) :
        (/\ a # b
         /\ HLGroupOf(highlight_results[a].row_index) =
                HLGroupOf(highlight_results[b].row_index))
        => highlight_results[a].mutation_type # highlight_results[b].mutation_type

\* a group in which the same code qualified twice: a highlighted row followed, in
\* the same group, by a row with the same detail columns and the same sequence
\* that was left without fill
C1_Witness ==
    \E i, j \in 1..Len(ws) :
        /\ i < j
        /\ HLGroupOf(i) = HLGroupOf(j)
        /\ i \in HighlightedIdx
        /\ j \notin HighlightedIdx
        /\ ~RowIsFilled(j)
        /\ ColValue(ws[j], 5) = ColValue(ws[i], 5)
        /\ ColValue(ws[j], 6) = ColValue(ws[i], 6)
        /\ ColValue(ws[j], 7) = ColValue(ws[i], 7)
        /\ AnchorRow(i) = AnchorRow(j)

-----------------------------------------------------------------------------
(* C2 *)

\* C2: every row that is filled, rewritten with runs or reported has verification
\* status "correct"; a row rejected with status "error" keeps its cells, and the
\* codes marked as used are codes of reported rows of the current group.
C2_OnlyCorrectApplied ==
    /\ \A k \in 1..Len(highlight_results) :
          highlight_results[k].verification_status = "correct"
    /\ \A i \in 1..Len(ws) :
          (RowIsFilled(i) \/ RowHasRuns(i)) => i \in HighlightedIdx
    /\ \A k \in 1..Len(hl_log) :
          /\ hl_log[k].row \notin HighlightedIdx
          /\ ~RowIsFilled(hl_log[k].row)
          /\ ~RowHasRuns(hl_log[k].row)
    /\ \A m \in current_highlighted_mutations :
          \E k \in 1..Len(highlight_results) :
              /\ highlight_results[k].mutation_type = m
              /\ HLGroupOf(highlight_results[k].row_index) = HLGroupOf(Len(ws))

\* a run in which one row was rejected by the verification and another was applied
C2_Witness == hl_log # <<>> /\ highlight_results # <<>>

-----------------------------------------------------------------------------
(* C3 *)

\* row j names the single code <<from, "-", ">", to>> in both detail columns
NamesSingleCode(j, code) ==
    /\ ParseMutationsFromColumn(ColValue(ws[j], 5)) = <<code>>
    /\ ParseMutationsFromColumn(ColValue(ws[j], 6)) = <<code>>

\* the sequence of row j has the lowercase to-base of code at a window offset
\* where the anchoring WT sequence has the from-base
LowercaseAtWindow(j, code) ==
    \E p \in (AnchorStart(j) + 1)..AnchorEnd(j) :
        /\ p <= Len(ColValue(ws[j], 7))
        /\ ColValue(ws[j], 7)[p] = LowerChar(code[4])
        /\ UpperChar(AnchorSeq(j)[p]) = code[1]

\* no earlier row of the group of row j was highlighted with code
NotYetApplied(j, code) ==
    \A k \in 1..Len(highlight_results) :
        (/\ highlight_results[k].row_index < j
         /\ HLGroupOf(highlight_results[k].row_index) = HLGroupOf(j))
        => highlight_results[k].mutation_type # code

\* the case of C3 for row j and a code of the colour table
SingleCodeCase(j, k) ==
    /\ ~HLIsHeader(j)
    /\ ~(ColValue(ws[j], 3) = tWT /\ ColValue(ws[j], 4) = tWT)
    /\ HasAnchor(j)
    /\ NamesSingleCode(j, MUTATION_COLOR_MAP[k][1])
    /\ NotYetApplied(j, MUTATION_COLOR_MAP[k][1])
    /\ LowercaseAtWindow(j, MUTATION_COLOR_MAP[k][1])

\* row j is highlighted with the table colour of entry k, reported correct, and
\* its window is a red run
HighlightedAs(j, k) ==
    /\ j \in HighlightedIdx
    /\ ResultOf(j).mutation_type = MUTATION_COLOR_MAP[k][1]
    /\ ResultOf(j).highlight_color = MUTATION_COLOR_MAP[k][2]
    /\ ResultOf(j).verification_status = "correct"
    /\ \A c \in 1..Len(ws[j]) : ws[j][c].fill = HIGHLIGHT_COLORS(MUTATION_COLOR_MAP[k][2])
    /\ \E r \in 1..Len(ws[j][8].runs) :
          /\ ws[j][8].runs[r].font = <<"0", "0", "F", "F", "0", "0", "0", "0">>
          /\ ws[j][8].runs[r].text =
                 Slice(ColValue(ws[j], 7), AnchorStart(j), AnchorEnd(j))

\* C3 as stated: every row in the single-code case is highlighted.
C3_Original ==
    \A j \in 1..Len(ws) : \A k \in 1..Len(MUTATION_COLOR_MAP) :
        SingleCodeCase(j, k) => HighlightedAs(j, k)

\* C3 amended: every row in the single-code case whose sequence reaches the end
\* of the anchor window is highlighted with the table colour of its code,
\* reported correct, and has its window re-rendered as a red run.
C3_SingleCodeComplete ==
    \A j \in 1..Len(ws) : \A k \in 1..Len(MUTATION_COLOR_MAP) :
        (SingleCodeCase(j, k) /\ Len(ColValue(ws[j], 7)) >= AnchorEnd(j))
        => HighlightedAs(j, k)

\* a C->T row in the single-code case that was highlighted yellow
C3_Witness ==
    \E j \in 1..Len(ws) :
        /\ SingleCodeCase(j, 1)
        /\ Len(ColValue(ws[j], 7)) >= AnchorEnd(j)
        /\ HighlightedAs(j, 1)
        /\ ResultOf(j).highlight_color = cYellow

-----------------------------------------------------------------------------
(* C10 *)

\* C10: a row is highlighted only if a WT row of its own group, before it,
\* contains the target window (case-insensitively); highlighted rows are not WT.
C10_AnchoredOnly ==
    \A i \in 1..Len(ws) :
        (i \in HighlightedIdx \/ RowIsFilled(i))
        => /\ HasAnchor(i)
           /\ ~(ColValue(ws[i], 3) = tWT /\ ColValue(ws[i], 4) = tWT)

\* an anchor recorded in one group, then a header, then a row in the single-code
\* case but for the anchor, which is left alone
C10_Witness ==
    \E w, h, j \in 1..Len(ws) :
        /\ w < h /\ h < j
        /\ HLIsHeader(h)
        /\ ColValue(ws[w], 3) = tWT /\ ColValue(ws[w], 4) = tWT
        /\ Find(UpperStr(ColValue(ws[w], 7)), target_sequence) >= 0
        /\ NamesSingleCode(j, MUTATION_COLOR_MAP[1][1])
        /\ ~HasAnchor(j)
        /\ ~RowIsFilled(j)

-----------------------------------------------------------------------------
(* C9 *)

\* C9 as stated: when process_file has returned, every row rejected with
\* verification status "error" has an entry in error_mutations and is counted
\* in verification_statistics.error.
C9_ErrorsRecorded ==
    hl_pc = "done" =>
        /\ \A k \in 1..Len(hl_log) :
              \E e \in 1..Len(hl_report.error_mutations) :
                  hl_report.error_mutations[e].row_index = hl_log[k].row
        /\ hl_report.verification_statistics["error"] = Len(hl_log)

-----------------------------------------------------------------------------
(* GeneEditingProcessor (gene_editing_processor.py): colours and red runs *)

HexDigits == <<"0", "1", "2", "3", "4", "5", "6", "7", "8", "9",
               "A", "B", "C", "D", "E", "F">>

\* the value of each hexadecimal digit
HexValue == [c \in Range(HexDigits) |-> (CHOOSE i \in 1..16 : HexDigits[i] = c) - 1]

IsHex(c) == UpperChar(c) \in DOMAIN HexValue

\* int(two_chars, 16); -1 stands for the ValueError
Hex2(two_chars) ==
    IF Len(two_chars) = 2 /\ IsHex(two_chars[1]) /\ IsHex(two_chars[2])
    THEN 16 * HexValue[UpperChar(two_chars[1])] + HexValue[UpperChar(two_chars[2])]
    ELSE -1

\* IsRedColor reading the channels of AARRGGBB at the offsets of RRGGBB
IsRedColorNoAlpha(rgb_str) ==
    LET rgb == UpperStr(rgb_str)
        r   == Hex2(Slice(rgb, 0, 2))
        g   == Hex2(Slice(rgb, 2, 4))
        b   == Hex2(Slice(rgb, 4, 6))
    IN  IF rgb_str = <<>> THEN FALSE
        ELSE IF Len(rgb) # 8 /\ Len(rgb) # 6 THEN FALSE
        ELSE IF r < 0 \/ g < 0 \/ b < 0 THEN FALSE
        ELSE r > 180 /\ g < 100 /\ b < 100

\* _is_red_color
IsRedColor(rgb_str) ==
    LET rgb == UpperStr(rgb_str)
        off == IF Len(rgb) = 8 THEN 2 ELSE 0
        r   == Hex2(Slice(rgb, off, off + 2))
        g   == Hex2(Slice(rgb, off + 2, off + 4))
        b   == Hex2(Slice(rgb, off + 4, off + 6))
    IN  IF rgb_str = <<>> THEN FALSE
        ELSE IF Len(rgb) # 8 /\ Len(rgb) # 6 THEN FALSE
        ELSE IF r < 0 \/ g < 0 \/ b < 0 THEN FALSE
        ELSE r > 180 /\ g < 100 /\ b < 100

\* the loop over the parts of a CellRichText in
\* _extract_red_from_cell_with_position: (red_text_parts joined, red_start)
RECURSIVE RedOfRuns(_, _, _, _)
RedOfRuns(runs, current_pos, red_start, red_text) ==
    IF runs = <<>> THEN [text |-> red_text, start |-> red_start]
    ELSE LET part   == Head(runs)
             is_red == part.font # <<>> /\ IsRedColor(part.font)
         IN  IF is_red /\ part.text # <<>>
             THEN RedOfRuns(Tail(runs), current_pos + Len(part.text),
                            IF red_start = -1 THEN current_pos ELSE red_start,
                            red_text \o part.text)
             ELSE RedOfRuns(Tail(runs), current_pos + Len(part.text),
                            red_start, red_text)

\* _extract_red_from_cell_with_position
ExtractRedFromCellWithPosition(cell) ==
    IF cell.runs # <<>>
    THEN (IF RedOfRuns(cell.runs, 0, -1, <<>>).text # <<>>
          THEN RedOfRuns(cell.runs, 0, -1, <<>>)
          ELSE [text |-> <<>>, start |-> -1])
    ELSE IF cell.font # <<>> /\ IsRedColor(cell.font)
         THEN [text |-> cell.v, start |-> 0]
         ELSE [text |-> <<>>, start |-> -1]

\* the offsets of the lowercase bases of a sequence
LowercasePositions(sequence) ==
    {i \in 0..(Len(sequence) - 1) :
        IsLowerChar(sequence[i + 1]) /\ UpperChar(sequence[i + 1]) \in Bases}

\* ExtractRedBasesFromSequence with a fallback window of 10 characters
ExtractRedBasesShortWindow(sequence, original_row) ==
    LET h == IF Len(original_row) > 7 /\ original_row[8].v # <<>>
             THEN ExtractRedFromCellWithPosition(original_row[8])
             ELSE [text |-> <<>>, start |-> -1]
        i == IF Len(original_row) > 8 /\ original_row[9].v # <<>>
             THEN ExtractRedFromCellWithPosition(original_row[9])
             ELSE [text |-> <<>>, start |-> -1]
        lows == LowercasePositions(sequence)
        mutation_pos == CHOOSE x \in lows : \A y \in lows : x <= y
        start0 == Max(0, mutation_pos - 10)
        end0   == start0 + 10
        end    == IF end0 > Len(sequence) THEN Len(sequence) ELSE end0
        start  == IF end0 > Len(sequence) THEN Max(0, end - 10) ELSE start0
    IN  IF h.text # <<>> THEN <<h.text, h.start, h.start + Len(h.text)>>
        ELSE IF i.text # <<>> THEN <<i.text, i.start, i.start + Len(i.text)>>
        ELSE IF sequence # <<>> /\ lows # {}
        THEN <<Slice(sequence, start, end), start, end>>
        ELSE <<(<<>>), -1, -1>>

\* _extract_red_bases_from_sequence: (red_20bp, start_pos, end_pos)
ExtractRedBasesFromSequence(sequence, original_row) ==
    LET h == IF Len(original_row) > 7 /\ original_row[8].v # <<>>
             THEN ExtractRedFromCellWithPosition(original_row[8])
             ELSE [text |-> <<>>, start |-> -1]
        i == IF Len(original_row) > 8 /\ original_row[9].v # <<>>
             THEN ExtractRedFromCellWithPosition(original_row[9])
             ELSE [text |-> <<>>, start |-> -1]
        lows == LowercasePositions(sequence)
        mutation_pos == CHOOSE x \in lows : \A y \in lows : x <= y
        start0 == Max(0, mutation_pos - 10)
        end0   == start0 + 20
        end    == IF end0 > Len(sequence) THEN Len(sequence) ELSE end0
        start  == IF end0 > Len(sequence) THEN Max(0, end - 20) ELSE start0
    IN  IF h.text # <<>> THEN <<h.text, h.start, h.start + Len(h.text)>>
        ELSE IF i.text # <<>> THEN <<i.text, i.start, i.start + Len(i.text)>>
        ELSE IF sequence # <<>> /\ lows # {}
        THEN <<Slice(sequence, start, end), start, end>>
        ELSE <<(<<>>), -1, -1>>

cBlue == <<"b", "l", "u", "e">>

cPink == <<"p", "i", "n", "k">>

cOther == <<"o", "t", "h", "e", "r">>

\* ClassifyFill with the green test before the yellow test
ClassifyFillGreenFirst(color) ==
    LET n == Len(color)
        r == Hex2(SubSeq(color, n - 5, n - 4))
        g == Hex2(SubSeq(color, n - 3, n - 2))
        b == Hex2(SubSeq(color, n - 1, n))
    IN  IF n < 6 THEN <<>>
        ELSE IF r < 0 \/ g < 0 \/ b < 0 THEN <<>>
        ELSE IF r > 240 /\ g > 240 /\ b > 240 THEN <<>>
        ELSE IF r = 0 /\ g = 0 /\ b = 0 /\ UpperStr(color) = NoFill THEN <<>>
        ELSE IF g > 180 /\ g > r /\ g > b /\ b < 120 THEN cGreen
        ELSE IF r > 200 /\ g > 200 /\ b < 100 THEN cYellow
        ELSE IF b > 150 /\ b > r /\ b > g THEN cBlue
        ELSE IF r > 200 /\ b > 150 /\ g < 180 THEN cPink
        ELSE IF ~(r < 50 /\ g < 50 /\ b < 50) /\ (r > 80 \/ g > 80 \/ b > 80) THEN cOther
        ELSE <<>>

\* the body of the loop of _is_row_highlighted for one cell: the colour
\* returned, or <<>> when the loop goes on to the next cell
ClassifyFill(color) ==
    LET n == Len(color)
        r == Hex2(SubSeq(color, n - 5, n - 4))
        g == Hex2(SubSeq(color, n - 3, n - 2))
        b == Hex2(SubSeq(color, n - 1, n))
    IN  IF n < 6 THEN <<>>
        ELSE IF r < 0 \/ g < 0 \/ b < 0 THEN <<>>
        ELSE IF r > 240 /\ g > 240 /\ b > 240 THEN <<>>
        ELSE IF r = 0 /\ g = 0 /\ b = 0 /\ UpperStr(color) = NoFill THEN <<>>
        ELSE IF r > 200 /\ g > 200 /\ b < 100 THEN cYellow
        ELSE IF g > 180 /\ g > r /\ g > b /\ b < 120 THEN cGreen
        ELSE IF b > 150 /\ b > r /\ b > g THEN cBlue
        ELSE IF r > 200 /\ b > 150 /\ g < 180 THEN cPink
        ELSE IF ~(r < 50 /\ g < 50 /\ b < 50) /\ (r > 80 \/ g > 80 \/ b > 80) THEN cOther
        ELSE <<>>

\* _is_row_highlighted: the first cell of the row that decides
IsRowHighlighted(row) ==
    LET hits == {k \in 1..Len(row) : ClassifyFill(row[k].fill) # <<>>}
    IN  IF hits = {} THEN [highlighted |-> FALSE, color |-> <<>>]
        ELSE [highlighted |-> TRUE,
              color |-> ClassifyFill(row[CHOOSE k \in hits : \A j \in hits : k <= j].fill)]

-----------------------------------------------------------------------------
(* GeneEditingProcessor.parse_source_file and _parse_data_row *)

Letters == Range(LowerLetters) \cup Range(UpperLetters)

\* the characters matched by \w
WordChars == Letters \cup Digits \cup {"_"}

\* sequence_pattern ^(\d+)-ref(\w+)$ : group(1) the digits, group(2) the name
MatchSequencePattern(text) ==
    LET n    == LeadingIn(text, Digits)
        name == SubSeq(text, n + 5, Len(text))
    IN  IF /\ n >= 1
           /\ SubSeq(text, n + 1, n + 4) = <<"-", "r", "e", "f">>
           /\ name # <<>>
           /\ \A k \in 1..Len(name) : name[k] \in WordChars
        THEN [ok |-> TRUE, num |-> SubSeq(text, 1, n), name |-> name]
        ELSE [ok |-> FALSE, num |-> <<>>, name |-> <<>>]

\* first_cell = str(row_data[0]).strip() if row_data[0] else ""
FirstCell(row) == IF row[1].v # <<>> THEN Strip(row[1].v) ELSE <<>>

\* the decimal value of a text of digits
RECURSIVE DecimalValue(_)
DecimalValue(text) ==
    IF text = <<>> THEN 0
    ELSE 10 * DecimalValue(SubSeq(text, 1, Len(text) - 1))
         + ((CHOOSE i \in 1..10 : HexDigits[i] = text[Len(text)]) - 1)

\* str(n) for n >= 0
RECURSIVE DecimalText(_)
DecimalText(n) ==
    IF n < 10 THEN <<HexDigits[n + 1]>>
    ELSE DecimalText(n \div 10) \o <<HexDigits[(n % 10) + 1]>>

RECURSIVE Pow10(_)
Pow10(n) == IF n = 0 THEN 1 ELSE 10 * Pow10(n - 1)

\* float(text) for a text of digits with at most one ".": the number is
\* digits / 10^scale
ParseDecimal(text) ==
    LET dot  == Find(text, <<".">>)
        int  == IF dot = -1 THEN text ELSE SubSeq(text, 1, dot)
        frac == IF dot = -1 THEN <<>> ELSE SubSeq(text, dot + 2, Len(text))
    IN  [digits |-> DecimalValue(int \o frac), scale |-> Len(frac)]

\* f"{x:.{places}f}" for x = digits / 10^scale >= 0: x rounded to places
\* decimals (a tie goes to the even digit, as for the decimal value)
FormatFixed(digits, scale, places) ==
    LET unit    == IF scale > places THEN Pow10(scale - places) ELSE 1
        q       == digits \div unit
        r       == digits % unit
        rounded == IF scale <= places THEN digits * Pow10(places - scale)
                   ELSE IF 2 * r > unit \/ (2 * r = unit /\ q % 2 = 1) THEN q + 1
                   ELSE q
        d       == DecimalText(rounded)
        padded  == [k \in 1..(places + 1 - Min(places + 1, Len(d))) |-> "0"] \o d
    IN  IF places = 0 THEN padded
        ELSE SubSeq(padded, 1, Len(padded) - places) \o <<".">>
             \o SubSeq(padded, Len(padded) - places + 1, Len(padded))

\* str.rstrip(c)
RECURSIVE RStripChar(_, _)
RStripChar(text, c) ==
    IF text # <<>> /\ text[Len(text)] = c
    THEN RStripChar(SubSeq(text, 1, Len(text) - 1), c)
    ELSE text

\* isinstance(val, float) and cell.number_format and '%' in cell.number_format
IsPercentFloat(cell) ==
    /\ cell.type = "float"
    /\ "%" \in Range(FormatText(cell.number_format))

\* lines 118-127 of parse_source_file: the value put into row_data for a cell;
\* a float shown as a percentage becomes the text of that percentage
ReadValue(cell) ==
    LET zeros          == Len(SelectSeq(FormatText(cell.number_format), LAMBDA c : c = "0"))
        decimal_places == IF zeros - 1 < 0 THEN 2 ELSE zeros - 1
        val            == ParseDecimal(cell.v)
    IN  IF IsPercentFloat(cell)
        THEN FormatFixed(val.digits * 100, val.scale, decimal_places) \o <<"%">>
        ELSE cell.v

\* row_data as parse_source_file builds it
ReadRowData(row) == [k \in 1..Len(row) |-> ReadValue(row[k])]

\* lines 295-305 of _parse_data_row: percentage_raw of the value val read from cell
PercentageRaw(val, cell) ==
    LET is_str == cell.type = "str" \/ IsPercentFloat(cell)
        x      == ParseDecimal(val)
        trim(t) == RStripChar(RStripChar(t, "0"), ".") \o <<"%">>
    IN  IF val = <<>> THEN <<>>
        ELSE IF is_str THEN (IF "%" \in Range(val) THEN val ELSE <<>>)
        ELSE IF cell.type = "float" /\ 0 < x.digits /\ x.digits <= Pow10(x.scale)
        THEN trim(FormatFixed(x.digits * 100, x.scale, 4))
        ELSE trim(FormatFixed(x.digits, x.scale, 4))

\* int(value), 0 on ValueError / TypeError
ParseDepth(text) ==
    IF Strip(text) # <<>> /\ \A k \in 1..Len(Strip(text)) : Strip(text)[k] \in Digits
    THEN DecimalValue(Strip(text))
    ELSE 0

\* mutation_pattern.search(text): ([ATCG])->([ATCG]) anywhere, ignoring case
HasMutationPattern(text) ==
    \E i \in 1..(Len(text) - 3) :
        /\ UpperChar(text[i]) \in Bases
        /\ text[i + 1] = "-"
        /\ text[i + 2] = ">"
        /\ UpperChar(text[i + 3]) \in Bases

\* ''.join(c for c in s if c.upper() in 'ATCG')
CleanBases(text) == SelectSeq(text, LAMBDA c : UpperChar(c) \in Bases)

\* the sequence fields are kept only with more than this many bases
MinSequenceBases == 20

\* the value of column k (0-based) as _parse_data_row reads it: str(...).strip()
FieldText(row_data, k) ==
    IF Len(row_data) > k /\ row_data[k + 1] # <<>> THEN Strip(row_data[k + 1]) ELSE <<>>

\* left_seq / right_seq
SequenceField(row_data, k) ==
    IF Len(CleanBases(FieldText(row_data, k))) > MinSequenceBases
    THEN FieldText(row_data, k)
    ELSE <<>>

HasLowerBase(text) ==
    \E i \in 1..Len(text) : IsLowerChar(text[i]) /\ UpperChar(text[i]) \in Bases

\* _parse_data_row: the SequenceEntry of a data row
ParseDataRow(row_data, row_idx, seq_id, ref_name, is_highlighted, highlight_color, row_cells) ==
    LET left_type  == UpperStr(FieldText(row_data, 3))
        right_type == UpperStr(FieldText(row_data, 4))
        left_var   == FieldText(row_data, 5)
        right_var  == FieldText(row_data, 6)
        left_seq   == SequenceField(row_data, 7)
        right_seq  == SequenceField(row_data, 8)
        depth      == IF Len(row_data) > 1 THEN ParseDepth(row_data[2]) ELSE 0
        use_left   == (is_highlighted /\ left_seq # <<>>) \/ HasLowerBase(left_seq)
        use_right  == ~use_left /\ HasLowerBase(right_seq)
    IN  [sequence_id |-> seq_id,
         reference_name |-> ref_name,
         row_number |-> row_idx,
         depth |-> depth,
         percentage_raw |-> IF Len(row_data) > 2
                            THEN PercentageRaw(row_data[3], row_cells[3])
                            ELSE <<>>,
         data_type |-> IF left_type = tWT /\ right_type = tWT THEN tWT
                       ELSE IF left_type = tSNP \/ right_type = tSNP THEN tSNP
                       ELSE IF left_type # tWT THEN left_type ELSE right_type,
         snp_type |-> IF HasMutationPattern(left_var) THEN left_var
                      ELSE IF HasMutationPattern(right_var) THEN right_var
                      ELSE <<>>,
         full_sequence |-> IF use_left THEN left_seq
                           ELSE IF use_right THEN right_seq
                           ELSE IF left_seq # <<>> THEN left_seq ELSE right_seq,
         left_sequence |-> left_seq,
         right_sequence |-> right_seq,
         is_wt |-> (left_type = tWT /\ right_type = tWT),
         is_highlighted |-> is_highlighted,
         highlight_color |-> highlight_color,
         has_valid_data |-> depth > 0,
         original_row |-> row_data,
         original_row_cells |-> row_cells]

\* lines 89-109: the checks of the input file and load_workbook, first with
\* rich_text=True and then without
SPOpen ==
    /\ sp_pc = "open"
    /\ IF ~PathExists(input_path)
       THEN /\ raised' = [type |-> "FileNotFoundError", message |-> "file does not exist"]
            /\ sp_pc' = "failed"
       ELSE IF PathSize(input_path) = 0
       THEN /\ raised' = [type |-> "ValueError", message |-> "file is empty"]
            /\ sp_pc' = "failed"
       ELSE IF LoadWorkbookRaises(input_path) /\ LoadWorkbookRaises(input_path)
       THEN /\ raised' = [type |-> "ValueError",
                           message |-> "cannot read Excel file, not a valid .xlsx"]
            /\ sp_pc' = "failed"
       ELSE /\ sp_pc' = "parse"
            /\ UNCHANGED raised
    /\ UNCHANGED <<sp_grid, sequence_groups, sp_results, sp_out, input_path, output_file>>

\* the guard of one more iteration of the loop over ws.iter_rows()
SPNextRow(row) == sp_pc = "parse" /\ Len(sp_grid) < MaxSimplifyRows

\* ParseHeaderRow reusing the group of an identifier met before
ParseHeaderRowMerging(row) ==
    /\ SPNextRow(row)
    /\ ~IsEmptyRow(row)
    /\ MatchSequencePattern(FirstCell(row)).ok
    /\ sp_grid' = Append(sp_grid, row)
    /\ sequence_groups' =
           IF \E g \in 1..Len(sequence_groups) : sequence_groups[g].seq_id = FirstCell(row)
           THEN sequence_groups
           ELSE Append(sequence_groups,
                       [seq_id |-> FirstCell(row),
                        ref_name |-> MatchSequencePattern(FirstCell(row)).name,
                        all_entries |-> <<>>])
    /\ UNCHANGED <<sp_pc, sp_results, sp_out>>

\* a non-empty row whose first cell matches the sequence pattern opens a new group
ParseHeaderRow(row) ==
    /\ SPNextRow(row)
    /\ ~IsEmptyRow(row)
    /\ MatchSequencePattern(FirstCell(row)).ok
    /\ sp_grid' = Append(sp_grid, row)
    /\ sequence_groups' = Append(sequence_groups,
                                 [seq_id |-> FirstCell(row),
                                  ref_name |-> MatchSequencePattern(FirstCell(row)).name,
                                  all_entries |-> <<>>])
    /\ UNCHANGED <<sp_pc, sp_results, sp_out>>

ParseEmptyRow(row) ==
    /\ SPNextRow(row)
    /\ IsEmptyRow(row)
    /\ sp_grid' = Append(sp_grid, row)
    /\ UNCHANGED <<sp_pc, sequence_groups, sp_results, sp_out>>

\* a data row met while current_group is None
ParseOrphanRow(row) ==
    /\ SPNextRow(row)
    /\ ~IsEmptyRow(row)
    /\ ~MatchSequencePattern(FirstCell(row)).ok
    /\ sequence_groups = <<>>
    /\ sp_grid' = Append(sp_grid, row)
    /\ UNCHANGED <<sp_pc, sequence_groups, sp_results, sp_out>>

\* a data row of the current group: current_group['all_entries'].append(entry)
ParseEntryRow(row) ==
    /\ SPNextRow(row)
    /\ ~IsEmptyRow(row)
    /\ ~MatchSequencePattern(FirstCell(row)).ok
    /\ sequence_groups # <<>>
    /\ sp_grid' = Append(sp_grid, row)
    /\ LET n     == Len(sequence_groups)
           cur   == sequence_groups[n]
           entry == ParseDataRow(ReadRowData(row), Len(sp_grid) + 1, cur.seq_id, cur.ref_name,
                                 IsRowHighlighted(row).highlighted,
                                 IsRowHighlighted(row).color, row)
       IN  sequence_groups' =
               [sequence_groups EXCEPT ![n].all_entries = Append(@, entry)]
    /\ UNCHANGED <<sp_pc, sp_results, sp_out>>

\* wb.close(); return sequence_groups
EndParse ==
    /\ sp_pc = "parse"
    /\ sp_pc' = "parsed"
    /\ UNCHANGED <<sp_grid, sequence_groups, sp_results, sp_out>>

-----------------------------------------------------------------------------
(* GeneEditingProcessor.simplify_data *)

SimplifiedWT(group, wt_entry, simplified) ==
    [sequence_id |-> group.seq_id,
     reference_name |-> group.ref_name,
     row_type |-> tWT,
     red_20_bases |-> tDash,
     original_row_values |-> wt_entry.original_row,
     is_highlighted |-> FALSE,
     highlight_color |-> <<>>,
     original_row_num |-> wt_entry.row_number,
     is_simplified |-> simplified]

SimplifiedSNP(group, hl_entry) ==
    LET red_bases == IF hl_entry.original_row_cells # <<>>
                     THEN ExtractRedBasesFromSequence(hl_entry.full_sequence,
                                                      hl_entry.original_row_cells)[1]
                     ELSE <<>>
    IN  [sequence_id |-> group.seq_id,
         reference_name |-> group.ref_name,
         row_type |-> tSNP,
         red_20_bases |-> IF red_bases # <<>> THEN red_bases ELSE tDash,
         original_row_values |-> hl_entry.original_row,
         is_highlighted |-> TRUE,
         highlight_color |-> hl_entry.highlight_color,
         original_row_num |-> hl_entry.row_number,
         is_simplified |-> FALSE]

\* SimplifyGroup emitting every entry of a group without highlighted row
SimplifyGroupKeepsAll(group) ==
    LET highlighted_entries == SelectSeq(group.all_entries, LAMBDA e : e.is_highlighted)
        wt_entries          == SelectSeq(group.all_entries, LAMBDA e : e.is_wt)
    IN  IF Len(highlighted_entries) > 0
        THEN [k \in 1..Len(wt_entries) |-> SimplifiedWT(group, wt_entries[k], FALSE)]
             \o [k \in 1..Len(highlighted_entries) |->
                    SimplifiedSNP(group, highlighted_entries[k])]
        ELSE [k \in 1..Len(group.all_entries) |->
                 SimplifiedWT(group, group.all_entries[k], TRUE)]

\* SimplifyGroup emitting the kept entries in one pass, in file order
SimplifyGroupInFileOrder(group) ==
    LET highlighted_entries == SelectSeq(group.all_entries, LAMBDA e : e.is_highlighted)
        wt_entries          == SelectSeq(group.all_entries, LAMBDA e : e.is_wt)
        kept                == SelectSeq(group.all_entries,
                                         LAMBDA e : e.is_wt \/ e.is_highlighted)
    IN  IF Len(highlighted_entries) > 0
        THEN [k \in 1..Len(kept) |->
                 IF kept[k].is_highlighted THEN SimplifiedSNP(group, kept[k])
                 ELSE SimplifiedWT(group, kept[k], FALSE)]
        ELSE [k \in 1..Len(wt_entries) |-> SimplifiedWT(group, wt_entries[k], TRUE)]

\* the body of `for group in sequence_groups`: the rows appended to results
SimplifyGroup(group) ==
    LET highlighted_entries == SelectSeq(group.all_entries, LAMBDA e : e.is_highlighted)
        wt_entries          == SelectSeq(group.all_entries, LAMBDA e : e.is_wt)
    IN  IF Len(highlighted_entries) > 0
        THEN [k \in 1..Len(wt_entries) |-> SimplifiedWT(group, wt_entries[k], FALSE)]
             \o [k \in 1..Len(highlighted_entries) |->
                    SimplifiedSNP(group, highlighted_entries[k])]
        ELSE [k \in 1..Len(wt_entries) |-> SimplifiedWT(group, wt_entries[k], TRUE)]

RECURSIVE SimplifyGroups(_)
SimplifyGroups(groups) ==
    IF groups = <<>> THEN <<>>
    ELSE SimplifyGroup(Head(groups)) \o SimplifyGroups(Tail(groups))

SimplifyData ==
    /\ sp_pc = "parsed"
    /\ sp_results' = SimplifyGroups(sequence_groups)
    /\ sp_pc' = "done"
    /\ UNCHANGED <<sp_grid, sequence_groups, sp_out>>

-----------------------------------------------------------------------------
(* GeneEditingProcessor.generate_simplified_excel *)

\* color_fills: colour name -> PatternFill start colour; <<>> is .get() -> None
ColorFills(color) ==
    CASE color = cYellow -> <<"F", "F", "F", "F", "F", "F", "0", "0">>
      [] color = cGreen  -> <<"F", "F", "9", "0", "E", "E", "9", "0">>
      [] color = cBlue   -> <<"F", "F", "A", "D", "D", "8", "E", "6">>
      [] color = cPink   -> <<"F", "F", "F", "F", "B", "6", "C", "1">>
      [] color = cOther  -> <<"F", "F", "E", "0", "E", "0", "E", "0">>
      [] OTHER -> <<>>

\* the captions of the header row; ASCII captions stand for the Chinese ones
\* ("seq" for the identifier, "red20", "type", "color", "col<i>")
OutputHeaders(max_orig_cols) ==
    << <<"s", "e", "q">>, <<"r", "e", "d", "2", "0">>, <<"t", "y", "p", "e">>,
       <<"c", "o", "l", "o", "r">> >>
    \o [i \in 1..(IF max_orig_cols > 0 THEN max_orig_cols - 1 ELSE 0) |->
           <<"c", "o", "l">> \o HexDigits[i + 1]]

\* one data row of the output sheet: the four leading cells, then the original
\* values from column 1 on (column 0 is skipped)
OutputRow(row) ==
    LET is_snp_row == row.row_type = tSNP
        hl_color   == row.highlight_color
        fill       == IF is_snp_row /\ ColorFills(hl_color) # <<>>
                      THEN ColorFills(hl_color) ELSE NoFill
        out(v, font) == [v |-> v, font |-> font, fill |-> fill]
    IN  << out(row.sequence_id, <<>>),
           out(row.red_20_bases,
               IF is_snp_row /\ row.red_20_bases # tDash
               THEN <<"0", "0", "F", "F", "0", "0", "0", "0">> ELSE <<>>),
           out(row.row_type, <<>>),
           out(IF hl_color # <<>> THEN hl_color ELSE tDash, <<>>) >>
        \o [k \in 1..(IF row.original_row_values = <<>> THEN 0
                      ELSE Len(row.original_row_values) - 1) |->
               out(row.original_row_values[k + 1], <<>>)]

\* the widest original row of the results
RECURSIVE MaxOrigCols(_)
MaxOrigCols(results) ==
    IF results = <<>> THEN 0
    ELSE Max(Len(Head(results).original_row_values), MaxOrigCols(Tail(results)))

\* generate_simplified_excel as called by process_file: the header row, one
\* row per result, wb.save(output_path)
GenerateSimplifiedExcel ==
    /\ sp_pc = "done"
    /\ sp_pc' = "saved"
    /\ sp_out' = <<[k \in 1..Len(OutputHeaders(MaxOrigCols(sp_results))) |->
                      [v |-> OutputHeaders(MaxOrigCols(sp_results))[k],
                       font |-> <<"F", "F", "F", "F", "F", "F">>,
                       fill |-> <<"F", "F", "4", "4", "7", "2", "C", "6">>]]>>
                \o [k \in 1..Len(sp_results) |-> OutputRow(sp_results[k])]
    /\ output_file' = TRUE
    /\ UNCHANGED <<sp_grid, sequence_groups, sp_results, input_path, raised>>

-----------------------------------------------------------------------------
(* GeneEditingProcessor.get_summary *)

\* the dictionary get_summary returns for a list of simplified rows
SummaryOf(results) ==
    LET snp_rows        == SelectSeq(results, LAMBDA r : r.row_type = tSNP)
        wt_rows         == SelectSeq(results, LAMBDA r : r.row_type = tWT)
        simplified_rows == SelectSeq(results, LAMBDA r : r.is_simplified)
        seq_ids         == {results[k].sequence_id : k \in 1..Len(results)}
        colors          == {snp_rows[k].highlight_color : k \in 1..Len(snp_rows)} \ {<<>>}
        refs            == {results[k].reference_name : k \in 1..Len(results)}
    IN  [total_rows |-> Len(results),
         total_sequence_groups |-> Cardinality(seq_ids),
         groups_with_highlights |-> Cardinality(seq_ids) - Len(simplified_rows),
         groups_without_highlights |-> Len(simplified_rows),
         wt_rows |-> Len(wt_rows),
         snp_rows |-> Len(snp_rows),
         snp_with_red_bases |->
             Len(SelectSeq(snp_rows, LAMBDA r : r.red_20_bases # <<>> /\ r.red_20_bases # tDash)),
         highlight_color_distribution |->
             [c \in colors |-> Len(SelectSeq(snp_rows, LAMBDA r : r.highlight_color = c))],
         reference_distribution |->
             [n \in refs |-> Len(SelectSeq(results, LAMBDA r : r.reference_name = n))]]

\* summary = processor.get_summary(results), after process_file has returned
GetSummary ==
    /\ sp_pc = "saved"
    /\ sp_summary = NoReport
    /\ sp_summary' = SummaryOf(sp_results)
    /\ UNCHANGED <<spVars, fileVars>>

-----------------------------------------------------------------------------
(* One run of parse_source_file followed by simplify_data *)

tA8 == [k \in 1..8 |-> "A"]

seqWT == tA8 \o <<"T", "C", "G", "A", "T">> \o tA8

seqSNP == tA8 \o <<"T", "t", "G", "A", "T">> \o tA8

fYellow == <<"F", "F", "F", "F", "F", "F", "0", "0">>

fGreen == <<"F", "F", "9", "2", "D", "0", "5", "0">>

\* the row with every cell filled with color
WithFill(row, color) == [k \in 1..Len(row) |-> [row[k] EXCEPT !.fill = color]]

\* the row with the window [a, b) of the cell of column col marked as a red run
WithRedWindow(row, col, a, b) ==
    [row EXCEPT ![col] = ApplyRedFontTo20bp(row[col], row[col].v, <<a, b>>)]

\* the row with the cell of column C replaced
WithRatio(row, cell) == [row EXCEPT ![3] = cell]

\* the rows a workbook given to the simplifier is made of
SPRows ==
    { MkRow(<<"7", "-", "r", "e", "f", "A">>, <<>>, <<>>, <<>>, <<>>, <<>>, <<>>, <<>>, <<>>),
      MkRow(<<"8", "-", "r", "e", "f", "B">>, <<>>, <<>>, <<>>, <<>>, <<>>, <<>>, <<>>, <<>>),
      MkRow(<<>>, <<>>, <<>>, <<>>, <<>>, <<>>, <<>>, <<>>, <<>>),
      \* a WT row without fill, with a value in a tenth column
      Append(MkRow(<<>>, <<"9">>, <<"9", "0", "%">>, tWT, tWT, tDash, tDash, seqWT, <<>>),
             PlainCell(<<"x">>)),
      \* a WT row with a yellow fill whose I cell has a red run of 20 characters
      WithRedWindow(WithFill(MkRow(<<>>, <<"8">>, <<"8", "%">>, <<"w", "t">>, tWT,
                                   tDash, tDash, seqWT, seqSNP), fYellow), 9, 1, 21),
      \* a highlighted SNP row whose window is a red run of the H cell; its ratio
      \* is a float in the General format
      WithRatio(WithRedWindow(WithFill(MkRow(<<>>, <<"5">>, <<>>, tSNP, tSNP, tCT, tCT,
                                             seqSNP, <<>>), fYellow), 8, 9, 12),
                FloatCell(<<"0", ".", "1", "2", "3", "4", "5", "6", "7">>, "General")),
      \* a highlighted SNP row without red run; its ratio is a float shown as 0.00%
      WithRatio(WithFill(MkRow(<<>>, <<"4">>, <<>>, tSNP, tSNP, tGA, tGA, seqSNP, <<>>),
                         fGreen),
                [FloatCell(<<"0", ".", "1", "2", "3", "4", "5", "6", "7">>, "0.00%")
                    EXCEPT !.fill = fGreen]),
      \* a WT row without fill whose only sequence field has five bases
      MkRow(<<>>, <<"6">>, <<"2", "%">>, tWT, tWT, tDash, tDash,
            <<"T", "C", "G", "A", "T">>, <<>>),
      \* an SNP row without fill; its ratio is a text without percent sign
      MkRow(<<>>, <<"3">>, <<"3", ".", "5">>, tSNP, tWT, tCT, tDash, seqSNP, <<>>) }

NextSimplify ==
    \/ SPOpen /\ UNCHANGED <<smVars, raVars, rtVars, cfVars, vfVars, hlVars, rnVars>>
    \/ \E row \in SPRows : ParseHeaderRow(row) /\ UNCHANGED <<smVars, raVars, rtVars, cfVars, vfVars, hlVars, rnVars, fileVars>>
    \/ \E row \in SPRows : ParseEmptyRow(row) /\ UNCHANGED <<smVars, raVars, rtVars, cfVars, vfVars, hlVars, rnVars, fileVars>>
    \/ \E row \in SPRows : ParseOrphanRow(row) /\ UNCHANGED <<smVars, raVars, rtVars, cfVars, vfVars, hlVars, rnVars, fileVars>>
    \/ \E row \in SPRows : ParseEntryRow(row) /\ UNCHANGED <<smVars, raVars, rtVars, cfVars, vfVars, hlVars, rnVars, fileVars>>
    \/ EndParse /\ UNCHANGED <<smVars, raVars, rtVars, cfVars, vfVars, hlVars, rnVars, fileVars>>
    \/ SimplifyData /\ UNCHANGED <<smVars, raVars, rtVars, cfVars, vfVars, hlVars, rnVars, fileVars>>
    \/ GenerateSimplifiedExcel /\ UNCHANGED <<smVars, raVars, rtVars, cfVars, vfVars, hlVars, rnVars>>
    \/ GetSummary /\ UNCHANGED <<raVars, rtVars, cfVars, vfVars, hlVars, rnVars>>

SpecSimplify == Init /\ [][NextSimplify]_vars

-----------------------------------------------------------------------------
(* C4 *)

\* C4: for every highlighted row, the red run extracted again from the rewritten
\* H cell is the window sequence[start:end] of the row, case preserved, and the
\* start offset returned is the start of the anchor.
C4_RoundTrip ==
    \A i \in HighlightedIdx :
        /\ ExtractRedFromCellWithPosition(ws[i][8]).text =
               Slice(ColValue(ws[i], 7), AnchorStart(i), AnchorEnd(i))
        /\ ExtractRedFromCellWithPosition(ws[i][8]).text # <<>>
        /\ ExtractRedFromCellWithPosition(ws[i][8]).start = AnchorStart(i)

\* a highlighted row whose window starts inside the sequence and holds a
\* lowercase base, read back from its H cell
C4_Witness ==
    \E i \in HighlightedIdx :
        /\ AnchorStart(i) > 0
        /\ AnchorEnd(i) < Len(ColValue(ws[i], 7))
        /\ Len(ExtractRedFromCellWithPosition(ws[i][8]).text) = Len(target_sequence)
        /\ \E c \in Range(ExtractRedFromCellWithPosition(ws[i][8]).text) : IsLowerChar(c)

-----------------------------------------------------------------------------
(* Reading the simplifier's input back: groups, WT rows, highlighted rows *)

SPIsHeader(i) == MatchSequencePattern(FirstCell(sp_grid[i])).ok

\* the group of row i: the number of header rows up to and including row i
SPGroupOf(i) == Cardinality({j \in 1..i : SPIsHeader(j)})

SPNumGroups == SPGroupOf(Len(sp_grid))

\* the header row of group g
SPHeaderOf(g) == CHOOSE i \in 1..Len(sp_grid) : SPIsHeader(i) /\ SPGroupOf(i) = g

SPIsData(i) == ~SPIsHeader(i) /\ ~IsEmptyRow(sp_grid[i]) /\ SPGroupOf(i) >= 1

\* the wild-type rows of group g: both subtype cells are WT
SPWTRows(g) ==
    {i \in 1..Len(sp_grid) :
        /\ SPIsData(i) /\ SPGroupOf(i) = g
        /\ UpperStr(Strip(sp_grid[i][4].v)) = tWT
        /\ UpperStr(Strip(sp_grid[i][5].v)) = tWT}

\* the highlighted rows of group g: some cell has one of the highlight fills
\* of the source sheets, yellow or green
SPHighlightedRows(g) ==
    {i \in 1..Len(sp_grid) :
        /\ SPIsData(i) /\ SPGroupOf(i) = g
        /\ \E c \in 1..Len(sp_grid[i]) : sp_grid[i][c].fill \in {fYellow, fGreen}}

\* a set of row numbers as the ascending list
RECURSIVE Ascending(_)
Ascending(set) ==
    IF set = {} THEN <<>>
    ELSE LET lo == CHOOSE x \in set : \A y \in set : x <= y
         IN  <<lo>> \o Ascending(set \ {lo})

\* the rows simplify_data emitted for group g, in output order
EmittedOf(g) == SelectSeq(sp_results, LAMBDA r : SPGroupOf(r.original_row_num) = g)

RowNums(rows) == [k \in 1..Len(rows) |-> rows[k].original_row_num]

-----------------------------------------------------------------------------
(* C5 *)

\* C5: for a group without highlighted row the output holds exactly the WT rows
\* of the group, each WT / "-" / is_simplified; and is_simplified is true on an
\* emitted row iff its group has no highlighted row.
C5_UnhighlightedGroups ==
    sp_pc = "done" =>
        /\ \A g \in 1..SPNumGroups :
              SPHighlightedRows(g) = {} =>
                  /\ RowNums(EmittedOf(g)) = Ascending(SPWTRows(g))
                  /\ \A k \in 1..Len(EmittedOf(g)) :
                        /\ EmittedOf(g)[k].row_type = tWT
                        /\ EmittedOf(g)[k].red_20_bases = tDash
                        /\ EmittedOf(g)[k].is_simplified
        /\ \A k \in 1..Len(sp_results) :
              sp_results[k].is_simplified <=>
                  SPHighlightedRows(SPGroupOf(sp_results[k].original_row_num)) = {}
        /\ \A k \in 1..Len(sp_results) : SPGroupOf(sp_results[k].original_row_num) >= 1

\* a group without highlight whose WT row was emitted, next to a group with a
\* highlight whose rows were emitted
C5_Witness ==
    /\ sp_pc = "done"
    /\ \E g, h \in 1..SPNumGroups :
          /\ SPHighlightedRows(g) = {}
          /\ SPWTRows(g) # {}
          /\ EmittedOf(g) # <<>>
          /\ SPHighlightedRows(h) # {}
          /\ EmittedOf(h) # <<>>

-----------------------------------------------------------------------------
(* C6 *)

\* C6 as stated: for a group with a highlighted row the output holds
\* #WT + #highlighted rows, in the relative order of their source rows.
C6_Original ==
    sp_pc = "done" =>
        \A g \in 1..SPNumGroups :
            SPHighlightedRows(g) # {} =>
                /\ Len(EmittedOf(g)) =
                       Cardinality(SPWTRows(g)) + Cardinality(SPHighlightedRows(g))
                /\ \A p, q \in 1..Len(EmittedOf(g)) :
                      p < q => EmittedOf(g)[p].original_row_num
                                   <= EmittedOf(g)[q].original_row_num

\* C6 amended: for a group with a highlighted row the output holds the WT rows of
\* the group in input order followed by its highlighted rows in input order
\* (#WT + #highlighted rows; the order is kept within each block).
C6_WTThenHighlighted ==
    sp_pc = "done" =>
        \A g \in 1..SPNumGroups :
            SPHighlightedRows(g) # {} =>
                /\ RowNums(EmittedOf(g)) =
                       Ascending(SPWTRows(g)) \o Ascending(SPHighlightedRows(g))
                /\ Len(EmittedOf(g)) =
                       Cardinality(SPWTRows(g)) + Cardinality(SPHighlightedRows(g))
                /\ \A k \in 1..Len(EmittedOf(g)) :
                      EmittedOf(g)[k].row_type =
                          (IF k <= Cardinality(SPWTRows(g)) THEN tWT ELSE tSNP)

\* a group whose highlighted row comes before one of its WT rows in the input
C6_Witness ==
    /\ sp_pc = "done"
    /\ \E g \in 1..SPNumGroups :
          /\ Len(EmittedOf(g)) >= 2
          /\ \E i \in SPHighlightedRows(g) : \E w \in SPWTRows(g) : i < w

-----------------------------------------------------------------------------
(* C7 *)

\* C7: there is one group per header row, in the order of the header rows and
\* with that header's identifier, also when an identifier repeats; all emitted
\* rows of an earlier group precede all emitted rows of a later group.
C7_GroupsInFileOrder ==
    /\ Len(sequence_groups) = SPNumGroups
    /\ \A g \in 1..Len(sequence_groups) :
          /\ g <= SPNumGroups
          /\ sequence_groups[g].seq_id = FirstCell(sp_grid[SPHeaderOf(g)])
          /\ \A k \in 1..Len(sequence_groups[g].all_entries) :
                SPGroupOf(sequence_groups[g].all_entries[k].row_number) = g
    /\ \A p, q \in 1..Len(sp_results) :
          p < q => SPGroupOf(sp_results[p].original_row_num)
                       <= SPGroupOf(sp_results[q].original_row_num)
    /\ \A k \in 1..Len(sp_results) :
          sp_results[k].sequence_id =
              FirstCell(sp_grid[SPHeaderOf(SPGroupOf(sp_results[k].original_row_num))])

\* two groups with the same identifier that both contributed output rows
C7_Witness ==
    /\ sp_pc = "done"
    /\ \E g, h \in 1..SPNumGroups :
          /\ g < h
          /\ FirstCell(sp_grid[SPHeaderOf(g)]) = FirstCell(sp_grid[SPHeaderOf(h)])
          /\ EmittedOf(g) # <<>>
          /\ EmittedOf(h) # <<>>

-----------------------------------------------------------------------------
(* sort_gene_editing_file (gene_editing_processor.py) *)

\* f"{n:03d}"
Format03d(n) ==
    LET d == DecimalText(n)
    IN  [k \in 1..(3 - Min(3, Len(d))) |-> "0"] \o d

\* IsNewGroup opening a group at the first header row only
IsNewGroupFirstOnly(orig_num, prev_orig_num) == prev_orig_num = <<>>

\* IsNewGroup counting every header row as a new group
IsNewGroupAlways(orig_num, prev_orig_num) == TRUE

\* if orig_num != prev_orig_num (prev_orig_num is None before the first header,
\* written <<>>)
IsNewGroup(orig_num, prev_orig_num) == orig_num # prev_orig_num

\* the loop `for row_idx, orig_num, ref_name in sequence_id_rows`:
\* row_to_new_seq and new_seq_counter after it
RECURSIVE AssignNewSeq(_, _, _, _)
AssignNewSeq(id_rows, counter, prev_orig_num, mapping) ==
    IF id_rows = <<>> THEN [row_to_new_seq |-> mapping, new_seq_counter |-> counter]
    ELSE LET row_idx  == Head(id_rows)[1]
             orig_num == Head(id_rows)[2]
             ref_name == Head(id_rows)[3]
             counter2 == IF IsNewGroup(orig_num, prev_orig_num) THEN counter + 1
                         ELSE counter
             prev2    == IF IsNewGroup(orig_num, prev_orig_num) THEN orig_num
                         ELSE prev_orig_num
             new_id   == Format03d(counter2) \o <<"-", "r", "e", "f">> \o ref_name
         IN  AssignNewSeq(Tail(id_rows), counter2, prev2,
                          [i \in (DOMAIN mapping) \cup {row_idx} |->
                              IF i = row_idx THEN new_id ELSE mapping[i]])

\* lines 877-887: the check of the input file and load_workbook
RNOpen ==
    /\ rn_pc = "open"
    /\ IF ~PathExists(input_path)
       THEN /\ raised' = [type |-> "FileNotFoundError", message |-> "file does not exist"]
            /\ rn_pc' = "failed"
       ELSE IF LoadWorkbookRaises(input_path)
       THEN /\ raised' = [type |-> "ValueError", message |-> "cannot read Excel file"]
            /\ rn_pc' = "failed"
       ELSE /\ rn_pc' = "scan"
            /\ UNCHANGED raised
    /\ UNCHANGED <<ws_src, sequence_id_rows, row_to_new_seq, new_seq_counter, ws_dst,
                   rn_report, input_path, output_file>>

\* the guard of one more iteration of the first loop over ws_src.iter_rows()
RNNextRow(row) == rn_pc = "scan" /\ Len(ws_src) < MaxRenumberRows

ScanHeaderRow(row) ==
    /\ RNNextRow(row)
    /\ MatchSequencePattern(FirstCell(row)).ok
    /\ ws_src' = Append(ws_src, row)
    /\ sequence_id_rows' = Append(sequence_id_rows,
                                  <<Len(ws_src) + 1,
                                    MatchSequencePattern(FirstCell(row)).num,
                                    MatchSequencePattern(FirstCell(row)).name>>)
    /\ UNCHANGED <<rn_pc, row_to_new_seq, new_seq_counter, ws_dst, rn_report>>

ScanOtherRow(row) ==
    /\ RNNextRow(row)
    /\ ~MatchSequencePattern(FirstCell(row)).ok
    /\ ws_src' = Append(ws_src, row)
    /\ UNCHANGED <<rn_pc, sequence_id_rows, row_to_new_seq, new_seq_counter, ws_dst,
                   rn_report>>

AssignNewNumbers ==
    /\ rn_pc = "scan"
    /\ rn_pc' = "copy"
    /\ row_to_new_seq' = AssignNewSeq(sequence_id_rows, 0, <<>>, <<>>).row_to_new_seq
    /\ new_seq_counter' = AssignNewSeq(sequence_id_rows, 0, <<>>, <<>>).new_seq_counter
    /\ UNCHANGED <<ws_src, sequence_id_rows, ws_dst, rn_report>>

\* CopiedCell writing the new number without the reference name
CopiedCellNumberOnly(src_row_idx, col_idx) ==
    IF col_idx = 1 /\ src_row_idx \in DOMAIN row_to_new_seq
    THEN [ws_src[src_row_idx][col_idx] EXCEPT
             !.v = SubSeq(row_to_new_seq[src_row_idx], 1, 3) \o <<"-", "r", "e", "f", "X">>]
    ELSE ws_src[src_row_idx][col_idx]

\* the copy of cell col_idx of row src_row_idx: value, font and fill
CopiedCell(src_row_idx, col_idx) ==
    IF col_idx = 1 /\ src_row_idx \in DOMAIN row_to_new_seq
    THEN [ws_src[src_row_idx][col_idx] EXCEPT !.v = row_to_new_seq[src_row_idx]]
    ELSE ws_src[src_row_idx][col_idx]

\* lines 925-967: copy every cell, save, return the report
CopyRows ==
    /\ rn_pc = "copy"
    /\ rn_pc' = "done"
    /\ ws_dst' = [i \in 1..Len(ws_src) |->
                     [c \in 1..Len(ws_src[i]) |-> CopiedCell(i, c)]]
    /\ rn_report' = [success |-> TRUE,
                     total_groups |-> new_seq_counter,
                     total_rows |-> Len(sequence_id_rows)]
    /\ output_file' = TRUE
    /\ UNCHANGED <<ws_src, sequence_id_rows, row_to_new_seq, new_seq_counter,
                   input_path, raised>>

\* a cell the writer of the workbook leaves out: no value and no style
IsBlankCell(cell) == cell.v = <<>> /\ cell.font = <<>> /\ cell.fill = NoFill

\* wb_dst.save(output_path) followed by load_workbook(output_path): the rows up
\* to the last one that has a written cell
ReloadedRows(grid) ==
    LET written == {i \in 1..Len(grid) :
                       \E c \in 1..Len(grid[i]) : ~IsBlankCell(grid[i][c])}
    IN  SubSeq(grid, 1, Cardinality({i \in 1..Len(grid) : \E w \in written : i <= w}))

\* the first loop over ws_src.iter_rows(): sequence_id_rows of a worksheet
SequenceIdRowsOf(grid) ==
    LET headers == Ascending({i \in 1..Len(grid) :
                                 MatchSequencePattern(FirstCell(grid[i])).ok})
    IN  [k \in 1..Len(headers) |->
            <<headers[k],
              MatchSequencePattern(FirstCell(grid[headers[k]])).num,
              MatchSequencePattern(FirstCell(grid[headers[k]])).name>>]

\* RenumberedRows numbering every header row of the second run anew
RenumberedRowsCounting(grid) ==
    LET id_rows == SequenceIdRowsOf(grid)
    IN  [rows |-> [i \in 1..Len(grid) |->
                      [c \in 1..Len(grid[i]) |->
                          IF c = 1 /\ \E k \in 1..Len(id_rows) : id_rows[k][1] = i
                          THEN [grid[i][c] EXCEPT !.v =
                                   Format03d(CHOOSE k \in 1..Len(id_rows) : id_rows[k][1] = i)
                                   \o <<"-", "r", "e", "f">>
                                   \o MatchSequencePattern(FirstCell(grid[i])).name]
                          ELSE grid[i][c]]],
         total_groups |-> Len(id_rows),
         total_rows |-> Len(id_rows)]

\* one whole run of sort_gene_editing_file on a worksheet: the rows of ws_dst
\* and the counts of the returned dictionary
RenumberedRows(grid) ==
    LET id_rows  == SequenceIdRowsOf(grid)
        assigned == AssignNewSeq(id_rows, 0, <<>>, <<>>)
    IN  [rows |-> [i \in 1..Len(grid) |->
                      [c \in 1..Len(grid[i]) |->
                          IF c = 1 /\ i \in DOMAIN assigned.row_to_new_seq
                          THEN [grid[i][c] EXCEPT !.v = assigned.row_to_new_seq[i]]
                          ELSE grid[i][c]]],
         total_groups |-> assigned.new_seq_counter,
         total_rows |-> Len(id_rows)]

\* sort_gene_editing_file(output_path of the first run)
RenumberAgain ==
    /\ rn_pc = "done"
    /\ rn_report_again = NoReport
    /\ ws_dst_again' = RenumberedRows(ReloadedRows(ws_dst)).rows
    /\ rn_report_again' =
           [success |-> TRUE,
            total_groups |-> RenumberedRows(ReloadedRows(ws_dst)).total_groups,
            total_rows |-> RenumberedRows(ReloadedRows(ws_dst)).total_rows]
    /\ UNCHANGED <<rnVars, fileVars>>

\* the rows a workbook given to the renumberer is made of
RNRows ==
    { MkRow(<<"7", "-", "r", "e", "f", "A">>, <<>>, <<>>, <<>>, <<>>, <<>>, <<>>, <<>>, <<>>),
      MkRow(<<"7", "-", "r", "e", "f", "B">>, <<>>, <<>>, <<>>, <<>>, <<>>, <<>>, <<>>, <<>>),
      MkRow(<<"8", "-", "r", "e", "f", "A", " ">>, <<>>, <<>>, <<>>, <<>>, <<>>, <<>>, <<>>, <<>>),
      MkRow(<<"7", "-", "r", "e", "f">>, <<>>, <<>>, <<>>, <<>>, <<>>, <<>>, <<>>, <<>>),
      MkRow(<<>>, <<>>, <<>>, <<>>, <<>>, <<>>, <<>>, <<>>, <<>>),
      MkRow(<<>>, <<"9">>, <<"9", "0", "%">>, tWT, tWT, tDash, tDash,
            <<"T", "C", "G", "A", "T">>, <<>>) }

NextRenumber ==
    \/ RNOpen /\ UNCHANGED <<smVars, raVars, rtVars, cfVars, vfVars, hlVars, spVars>>
    \/ \E row \in RNRows : ScanHeaderRow(row) /\ UNCHANGED <<smVars, raVars, rtVars, cfVars, vfVars, hlVars, spVars, fileVars>>
    \/ \E row \in RNRows : ScanOtherRow(row) /\ UNCHANGED <<smVars, raVars, rtVars, cfVars, vfVars, hlVars, spVars, fileVars>>
    \/ AssignNewNumbers /\ UNCHANGED <<smVars, raVars, rtVars, cfVars, vfVars, hlVars, spVars, fileVars>>
    \/ CopyRows /\ UNCHANGED <<smVars, raVars, rtVars, cfVars, vfVars, hlVars, spVars>>
    \/ RenumberAgain /\ UNCHANGED <<smVars, rtVars, cfVars, vfVars, hlVars, spVars>>

SpecRenumber == Init /\ [][NextRenumber]_vars

-----------------------------------------------------------------------------
(* C8 *)

RNIsHeader(i) == MatchSequencePattern(FirstCell(ws_src[i])).ok

\* the header rows in file order
RNHeaders == Ascending({i \in 1..Len(ws_src) : RNIsHeader(i)})

\* the identifier token of header row i, and the digits it starts with
RNToken(i) == FirstCell(ws_src[i])

RNDigits(i) == MatchSequencePattern(FirstCell(ws_src[i])).num

\* the number header row i carries in the output workbook
NewNumber(i) == DecimalValue(MatchSequencePattern(FirstCell(ws_dst[i])).num)

\* C8 as stated, a run being a contiguous run of header rows with identical
\* identifier tokens: the first header has number 1, a header has the number of
\* the header before it when their tokens are identical and that number plus 1
\* otherwise, and total_groups is the highest number.
C8_Original ==
    rn_pc = "done" =>
        /\ RNHeaders # <<>> => NewNumber(RNHeaders[1]) = 1
        /\ \A k \in 1..(Len(RNHeaders) - 1) :
              NewNumber(RNHeaders[k + 1]) =
                  (IF RNToken(RNHeaders[k + 1]) = RNToken(RNHeaders[k])
                   THEN NewNumber(RNHeaders[k])
                   ELSE NewNumber(RNHeaders[k]) + 1)
        /\ rn_report.total_groups =
               (IF RNHeaders = <<>> THEN 0 ELSE NewNumber(RNHeaders[Len(RNHeaders)]))

\* C8 amended, a run being a contiguous run of header rows whose tokens start
\* with the same digits: the first header has number 1, a header has the number
\* of the header before it when their digits are identical and that number plus
\* 1 otherwise; a later run never reuses a number; total_groups is the highest
\* number.
C8_RunsOfDigits ==
    rn_pc = "done" =>
        /\ RNHeaders # <<>> => NewNumber(RNHeaders[1]) = 1
        /\ \A k \in 1..(Len(RNHeaders) - 1) :
              NewNumber(RNHeaders[k + 1]) =
                  (IF RNDigits(RNHeaders[k + 1]) = RNDigits(RNHeaders[k])
                   THEN NewNumber(RNHeaders[k])
                   ELSE NewNumber(RNHeaders[k]) + 1)
        /\ \A j, k, l \in 1..Len(RNHeaders) :
              (j < k /\ k < l /\ RNDigits(RNHeaders[k]) # RNDigits(RNHeaders[j]))
              => NewNumber(RNHeaders[l]) > NewNumber(RNHeaders[j])
        /\ rn_report.total_groups =
               (IF RNHeaders = <<>> THEN 0 ELSE NewNumber(RNHeaders[Len(RNHeaders)]))

\* a run of one number, another number, and the first number again, which
\* received a greater number than its first run
C8_Witness ==
    /\ rn_pc = "done"
    /\ \E j, k, l \in 1..Len(RNHeaders) :
          /\ j < k /\ k < l
          /\ RNDigits(RNHeaders[j]) = RNDigits(RNHeaders[l])
          /\ RNDigits(RNHeaders[k]) # RNDigits(RNHeaders[j])
          /\ NewNumber(RNHeaders[l]) > NewNumber(RNHeaders[j])
    /\ \E k \in 1..(Len(RNHeaders) - 1) :
          NewNumber(RNHeaders[k + 1]) = NewNumber(RNHeaders[k])

-----------------------------------------------------------------------------
(* One invocation of any of the three operations on the file at input_path *)

NextOps ==
    \/ sp_pc = "open" /\ rn_pc = "open" /\ Next
    \/ hl_pc = "open" /\ rn_pc = "open" /\ NextSimplify
    \/ hl_pc = "open" /\ sp_pc = "open" /\ NextRenumber

SpecOps == Init /\ [][NextOps]_vars

-----------------------------------------------------------------------------
(* C11 *)

\* the operation that was invoked has left its first step
Invoked == hl_pc # "open" \/ sp_pc # "open" \/ rn_pc # "open"

\* the operation that was invoked was ended by an exception
Aborted == hl_pc = "failed" \/ sp_pc = "failed" \/ rn_pc = "failed"

\* C11: when the file at input_path is missing, empty, no readable workbook or of
\* an unsupported extension, the highlight, simplify and renumber operations end
\* with an exception (FileNotFoundError for a missing file, ValueError
\* otherwise) before reading a row, and no output workbook is ever written.
C11_FileFailuresAbort ==
    /\ input_path # "workbook" =>
          /\ ~output_file
          /\ Invoked => Aborted
          /\ ws = <<>> /\ sp_grid = <<>> /\ ws_src = <<>>
          /\ sp_out = <<>> /\ ws_dst = <<>>
    /\ Aborted =>
          /\ input_path # "workbook"
          /\ raised.type = (IF input_path = "missing" THEN "FileNotFoundError"
                            ELSE "ValueError")
          /\ raised.message # ""
    /\ raised # NoError => Aborted

\* the renumbering of an empty file, which has no size check of its own, ended
\* by the ValueError of load_workbook
C11_Witness ==
    /\ input_path = "empty"
    /\ rn_pc = "failed"
    /\ raised.type = "ValueError"
    /\ ~output_file

-----------------------------------------------------------------------------
(* C12 *)

\* the text of the red runs of a cell of the source sheet, in order
RedRunText(cell) ==
    Concat([k \in 1..Len(cell.runs) |->
               IF IsRedColor(cell.runs[k].font) THEN cell.runs[k].text ELSE <<>>])

\* the SNP rows of the output whose red_20_bases is not the sentinel
SNPWithRed == {k \in 1..Len(sp_results) :
                  sp_results[k].row_type = tSNP /\ sp_results[k].red_20_bases # tDash}

-----------------------------------------------------------------------------
(* C13 *)

\* the code row would be highlighted with when the loop over common_mutations
\* runs in the order common_list, <<>> when the row is left alone
HighlightOutcome(row, common_list) ==
    LET matched == MatchedMutation(common_list, current_highlighted_mutations,
                                   ColValue(row, 7), current_target_pos)
    IN  IF matched = <<>> THEN <<>>
        ELSE IF VerificationRejects(Verdict(row, common_list).status) THEN <<>>
        ELSE IF HIGHLIGHT_COLORS(GetHighlightColor(matched)) = <<>> THEN <<>>
        ELSE matched

\* C13 as stated: whether the next row is highlighted, and with which code, is
\* the same for every order in which the codes of the intersection are tried.
C13_OrderIndependent ==
    hl_pc = "loop" =>
        \A row \in HLRows :
            \A o1, o2 \in Orders(CommonMutations(row)) :
                (IsCandidate(row, o1) /\ IsCandidate(row, o2))
                => HighlightOutcome(row, o1) = HighlightOutcome(row, o2)

-----------------------------------------------------------------------------
(* C14 *)

\* C14 as stated: a row that is no WT row, has an anchor, reaches the end of the
\* anchor window and has in its intersection a code of the colour table that is
\* not yet applied in its group and is really present (lowercase to-base where
\* the WT sequence has the from-base) is highlighted.
C14_AnyCodeHighlights ==
    \A j \in 1..Len(ws) : \A k \in 1..Len(MUTATION_COLOR_MAP) :
        (/\ ~HLIsHeader(j)
         /\ ~(ColValue(ws[j], 3) = tWT /\ ColValue(ws[j], 4) = tWT)
         /\ HasAnchor(j)
         /\ Len(ColValue(ws[j], 7)) >= AnchorEnd(j)
         /\ MUTATION_COLOR_MAP[k][1] \in CommonMutations(ws[j])
         /\ NotYetApplied(j, MUTATION_COLOR_MAP[k][1])
         /\ LowercaseAtWindow(j, MUTATION_COLOR_MAP[k][1]))
        => j \in HighlightedIdx

-----------------------------------------------------------------------------
(* C15 *)

\* the fill the colour table gives each of the four codes: C->T yellow FFFF00,
\* A->G green 92D050, G->A and T->C orange FFC000
TableFill(code) ==
    CASE code = tCT -> <<"F", "F", "F", "F", "0", "0">>
      [] code = tAG -> <<"9", "2", "D", "0", "5", "0">>
      [] code = tGA -> <<"F", "F", "C", "0", "0", "0">>
      [] code = tTC -> <<"F", "F", "C", "0", "0", "0">>
      [] OTHER -> <<>>

\* C15: every highlighted row carries one of the four codes C->T, A->G, G->A,
\* T->C and every cell of it is filled with the table colour of that code; every
\* filled row is a highlighted one, so a code outside the four never fills a row.
C15_TableColour ==
    /\ \A j \in HighlightedIdx :
          /\ ResultOf(j).mutation_type \in {tCT, tAG, tGA, tTC}
          /\ \A c \in 1..Len(ws[j]) : ws[j][c].fill = TableFill(ResultOf(j).mutation_type)
    /\ \A j \in 1..Len(ws) : RowIsFilled(j) => j \in HighlightedIdx
    /\ \A code \in {tCT, tAG, tGA, tTC} :
          HIGHLIGHT_COLORS(GetHighlightColor(code)) = TableFill(code)

\* a group with an A->G row filled green and, after it, a G->T row with a
\* lowercase t in the window that was left without fill
C15_Witness ==
    \E i, j \in 1..Len(ws) :
        /\ i < j
        /\ i \in HighlightedIdx
        /\ ResultOf(i).mutation_type = tAG
        /\ \A c \in 1..Len(ws[i]) : ws[i][c].fill = <<"9", "2", "D", "0", "5", "0">>
        /\ HasAnchor(j)
        /\ AnchorRow(j) = AnchorRow(i)
        /\ CommonMutations(ws[j]) = {tGT}
        /\ \E p \in (AnchorStart(j) + 1)..AnchorEnd(j) : ColValue(ws[j], 7)[p] = "t"
        /\ ~RowIsFilled(j)

-----------------------------------------------------------------------------
(* C16 *)

\* C16 as stated: a WT row emitted for a group without highlighted row carries
\* no value of the source row past column I (index 8), neither in its
\* original_row_values nor in its row of the output sheet (four leading cells,
\* then the columns 1 to 8 of the source row).
C16_PassthroughTruncated ==
    \A k \in 1..Len(sp_results) :
        sp_results[k].is_simplified
        => /\ Len(sp_results[k].original_row_values) <= 9
           /\ sp_pc = "saved" => Len(sp_out[k + 1]) <= 4 + 8

-----------------------------------------------------------------------------
(* C17 *)

\* C17 as stated: two adjacent header rows carry the same new number exactly
\* when their full identifier tokens are identical.
C17_Original ==
    rn_pc = "done" =>
        \A k \in 1..(Len(RNHeaders) - 1) :
            (NewNumber(RNHeaders[k + 1]) = NewNumber(RNHeaders[k]))
            <=> (RNToken(RNHeaders[k + 1]) = RNToken(RNHeaders[k]))

\* the header rows, after the first, whose digits differ from those of the
\* header row before them
DigitChanges == {k \in 2..Len(RNHeaders) :
                    RNDigits(RNHeaders[k]) # RNDigits(RNHeaders[k - 1])}

\* C17 amended: two adjacent header rows carry the same new number exactly when
\* the digits their tokens start with are identical, whatever the reference
\* names; the number of a header row is 1 plus the number of changes of digits
\* up to it, and the counter ends at the number of the last header row.
C17_DigitsChange ==
    rn_pc = "done" =>
        /\ \A k \in 1..(Len(RNHeaders) - 1) :
              (NewNumber(RNHeaders[k + 1]) = NewNumber(RNHeaders[k]))
              <=> (RNDigits(RNHeaders[k + 1]) = RNDigits(RNHeaders[k]))
        /\ \A k \in 1..Len(RNHeaders) :
              NewNumber(RNHeaders[k]) = 1 + Cardinality({c \in DigitChanges : c <= k})
        /\ new_seq_counter = (IF RNHeaders = <<>> THEN 0
                              ELSE 1 + Cardinality(DigitChanges))

\* three adjacent header rows 7-refA, 7-refB, 8-refA: the first two differ in
\* their tokens and share a number, the third has the next number
C17_Witness ==
    /\ rn_pc = "done"
    /\ \E k \in 1..(Len(RNHeaders) - 2) :
          /\ RNToken(RNHeaders[k]) # RNToken(RNHeaders[k + 1])
          /\ RNDigits(RNHeaders[k]) = RNDigits(RNHeaders[k + 1])
          /\ NewNumber(RNHeaders[k]) = NewNumber(RNHeaders[k + 1])
          /\ RNDigits(RNHeaders[k + 1]) # RNDigits(RNHeaders[k + 2])
          /\ NewNumber(RNHeaders[k + 2]) = NewNumber(RNHeaders[k + 1]) + 1

-----------------------------------------------------------------------------
(* C18 *)

-----------------------------------------------------------------------------
(* C19 *)

\* the texts that count as the original text of a cell: its stored value and,
\* for a number shown as a percentage, the text the number format shows
OriginalTexts(cell) == {cell.v, ReadValue(cell)}

\* C19 as stated: percentage_raw of every parsed entry is the original text of
\* the cell of column C of its row, and the cell written for that column to the
\* simplified sheet holds the same text.
C19_PercentageVerbatim ==
    /\ \A g \in 1..Len(sequence_groups) :
          \A e \in 1..Len(sequence_groups[g].all_entries) :
              sequence_groups[g].all_entries[e].percentage_raw \in
                  OriginalTexts(sp_grid[sequence_groups[g].all_entries[e].row_number][3])
    /\ sp_pc = "saved" =>
          \A k \in 1..Len(sp_results) :
              sp_out[k + 1][6].v \in
                  OriginalTexts(sp_grid[sp_results[k].original_row_num][3])

-----------------------------------------------------------------------------
(* Calls of MutationHighlighter._verify_mutation_with_wt on its own *)

\* the sequences over alphabet of at most MaxVerifyLen characters
SeqsUpTo(alphabet) == UNION {[1..n -> alphabet] : n \in 0..MaxVerifyLen}

\* the WT sequences, candidate sequences, claimed codes and windows of the calls
VerifyWT == SeqsUpTo({"C", "g"})

VerifyCandidates == SeqsUpTo({"C", "t", "a"})

VerifyCodes == {tCT, <<"c", "-", ">", "t">>, tGA, <<"T">>}

VerifyWindows == {<<0, 2>>, <<1, 3>>, <<-1, -1>>}

\* one call with self.current_wt_sequence = wt
VerifyCall(wt, mutated_sequence, claimed_mutation, target_pos) ==
    /\ vf_args' = [wt_sequence |-> wt, mutated_sequence |-> mutated_sequence,
                   claimed_mutation |-> claimed_mutation, target_pos |-> target_pos]
    /\ vf_result' = VerifyMutationWithWt(wt, mutated_sequence, claimed_mutation,
                                         target_pos)

\* one call, made once
NextVerify ==
    /\ vf_result.status = ""
    /\ \E wt \in VerifyWT, mutated_sequence \in VerifyCandidates,
          claimed_mutation \in VerifyCodes, target_pos \in VerifyWindows :
           /\ VerifyCall(wt, mutated_sequence, claimed_mutation, target_pos)
           /\ UNCHANGED <<smVars, raVars, hlVars, spVars, rnVars, fileVars, cfVars, rtVars>>

SpecVerify == Init /\ [][NextVerify]_vars

-----------------------------------------------------------------------------
(* C20 *)

\* the call has returned and was made with a non-empty WT sequence, a window
\* inside both sequences and a claimed code of the form F->T
VerifyCase ==
    /\ vf_result.status # ""
    /\ vf_args.wt_sequence # <<>>
    /\ vf_args.target_pos[1] >= 0
    /\ vf_args.target_pos[2] <= Len(vf_args.wt_sequence)
    /\ vf_args.target_pos[2] <= Len(vf_args.mutated_sequence)
    /\ Len(vf_args.claimed_mutation) >= 4
    /\ UpperChar(vf_args.claimed_mutation[1]) \in Bases
    /\ vf_args.claimed_mutation[2] = "-"
    /\ vf_args.claimed_mutation[3] = ">"
    /\ UpperChar(vf_args.claimed_mutation[4]) \in Bases

\* the positions of the window at which the candidate has a lowercase character
LowercaseInWindow ==
    {p \in (vf_args.target_pos[1] + 1)..vf_args.target_pos[2] :
        vf_args.mutated_sequence[p] \in LowerSet}

\* some lowercase character of the window is the to-base of the claimed code
\* where the WT sequence has its from-base
ClaimedSubstitutionPresent ==
    \E p \in LowercaseInWindow :
        /\ UpperChar(vf_args.mutated_sequence[p]) = UpperChar(vf_args.claimed_mutation[4])
        /\ UpperChar(vf_args.wt_sequence[p]) = UpperChar(vf_args.claimed_mutation[1])

\* C20: for a call with a non-empty WT sequence, an in-bounds window and a
\* parseable code F->T, the status is "correct" exactly when some lowercase
\* character of the window is T where the WT base is F, "unknown" exactly when
\* the window has no lowercase character, and "error" in every other case.
C20_VerifyStatus ==
    VerifyCase =>
        /\ (vf_result.status = "correct") <=> ClaimedSubstitutionPresent
        /\ (vf_result.status = "unknown") <=> (LowercaseInWindow = {})
        /\ (vf_result.status = "error") <=>
               (LowercaseInWindow # {} /\ ~ClaimedSubstitutionPresent)

\* a call answered "correct" whose window has two lowercase characters, the
\* first of which is not the claimed substitution
C20_Witness ==
    /\ VerifyCase
    /\ vf_result.status = "correct"
    /\ Cardinality(LowercaseInWindow) = 2
    /\ \E p \in LowercaseInWindow :
          /\ \A q \in LowercaseInWindow : p <= q
          /\ UpperChar(vf_args.wt_sequence[p]) # UpperChar(vf_args.claimed_mutation[1])

-----------------------------------------------------------------------------
(* C21 *)

\* some lowercase character of the window is the to-base of the claimed code
SharesClaimedToBase ==
    \E p \in LowercaseInWindow :
        UpperChar(vf_args.mutated_sequence[p]) = UpperChar(vf_args.claimed_mutation[4])

\* C21 as stated: when the call answers "error" and some lowercase character of
\* the window is the to-base of the claimed code (over another WT base), the
\* code reported as actual mutation has the to-base of the claimed code.
C21_MostSpecificMismatch ==
    (VerifyCase /\ vf_result.status = "error" /\ SharesClaimedToBase)
    => /\ Len(vf_result.actual) = 4
       /\ vf_result.actual[4] = UpperChar(vf_args.claimed_mutation[4])

-----------------------------------------------------------------------------
(* Calls of GeneEditingProcessor._is_row_highlighted on its own *)

\* the values of a colour channel the calls are made with: both sides of every
\* threshold of the classifier, and the ends of 0..255
ChannelValues == {0, 49, 50, 80, 81, 99, 100, 119, 120, 150, 151, 179, 180, 181,
                  200, 201, 240, 241, 255}

\* the two hexadecimal digits of a channel, as in an rgb string
HexByte(n) == <<HexDigits[(n \div 16) + 1], HexDigits[(n % 16) + 1]>>

\* the rgb string of a fill: the alpha prefix, then the three channels
RgbString(prefix, rgb) == prefix \o HexByte(rgb[1]) \o HexByte(rgb[2]) \o HexByte(rgb[3])

\* the alpha prefixes of the rgb strings: opaque, transparent, none (RRGGBB)
AlphaPrefixes == {<<"F", "F">>, <<"0", "0">>, <<>>}

\* the fills of the first cell of the row: no fill, and a light blue
FirstFills == {NoFill, <<"F", "F", "A", "D", "D", "8", "E", "6">>}

\* one call on a row of two cells
RowHighlightedCall(first, prefix, rgb) ==
    /\ cf_pc' = "returned"
    /\ cf_args' = [first |-> first, prefix |-> prefix, rgb |-> rgb]
    /\ cf_result' = IsRowHighlighted(<<[PlainCell(<<>>) EXCEPT !.fill = first],
                                        [PlainCell(<<>>) EXCEPT
                                            !.fill = RgbString(prefix, rgb)]>>)

\* one call, made once
NextColor ==
    /\ cf_pc = "idle"
    /\ \E first \in FirstFills, prefix \in AlphaPrefixes,
          r \in ChannelValues, g \in ChannelValues, b \in ChannelValues :
           /\ RowHighlightedCall(first, prefix, <<r, g, b>>)
           /\ UNCHANGED <<smVars, raVars, hlVars, spVars, rnVars, fileVars, vfVars, rtVars>>

SpecColor == Init /\ [][NextColor]_vars

-----------------------------------------------------------------------------
(* C22 *)

\* the tests of the classifier on the channels of a fill
NearWhite(rgb) == rgb[1] > 240 /\ rgb[2] > 240 /\ rgb[3] > 240

YellowTest(rgb) == rgb[1] > 200 /\ rgb[2] > 200 /\ rgb[3] < 100

GreenTest(rgb) == rgb[2] > 180 /\ rgb[2] > rgb[1] /\ rgb[2] > rgb[3] /\ rgb[3] < 120

BlueTest(rgb) == rgb[3] > 150 /\ rgb[3] > rgb[1] /\ rgb[3] > rgb[2]

PinkTest(rgb) == rgb[1] > 200 /\ rgb[3] > 150 /\ rgb[2] < 180

\* near-black: no channel above 80
NearBlack(rgb) == rgb[1] <= 80 /\ rgb[2] <= 80 /\ rgb[3] <= 80

\* the bucket of the first rule of the ordered list that matches, <<>> for no
\* highlight
FirstRule(prefix, rgb) ==
    IF NearWhite(rgb) THEN <<>>
    ELSE IF rgb = <<0, 0, 0>> /\ prefix = <<"0", "0">> THEN <<>>
    ELSE IF YellowTest(rgb) THEN cYellow
    ELSE IF GreenTest(rgb) THEN cGreen
    ELSE IF BlueTest(rgb) THEN cBlue
    ELSE IF PinkTest(rgb) THEN cPink
    ELSE IF ~NearBlack(rgb) THEN cOther
    ELSE <<>>

\* C22: the row is highlighted exactly when one of its cells falls in one of
\* the rules yellow, green, blue, pink, other, and its colour is the bucket of
\* the first such cell, given by the first matching rule of the ordered list; a
\* fill passing both the yellow and the green test is yellow, one passing both
\* the blue and the pink test is blue, a near-white or transparent fill is no
\* highlight, and a remaining fill is "other" unless no channel is above 80.
C22_FirstRuleWins ==
    cf_pc = "returned" =>
        /\ cf_result.highlighted <=>
               (cf_args.first # NoFill \/ FirstRule(cf_args.prefix, cf_args.rgb) # <<>>)
        /\ cf_result.color =
               (IF cf_args.first # NoFill THEN cBlue
                ELSE FirstRule(cf_args.prefix, cf_args.rgb))
        /\ cf_args.first = NoFill =>
               /\ (YellowTest(cf_args.rgb) /\ GreenTest(cf_args.rgb))
                      => cf_result.color = cYellow
               /\ (BlueTest(cf_args.rgb) /\ PinkTest(cf_args.rgb))
                      => cf_result.color = cBlue
               /\ NearWhite(cf_args.rgb) => ~cf_result.highlighted

\* a row whose first cell has no fill and whose second cell passes both the
\* yellow and the green test, classified yellow
C22_Witness ==
    /\ cf_pc = "returned"
    /\ cf_args.first = NoFill
    /\ YellowTest(cf_args.rgb) /\ GreenTest(cf_args.rgb)
    /\ cf_result = [highlighted |-> TRUE, color |-> cYellow]

-----------------------------------------------------------------------------
(* C23 *)

\* neither sequence field of row i of the source sheet has more than 20 bases
NoLongSequence(i) ==
    /\ Len(CleanBases(sp_grid[i][8].v)) <= 20
    /\ Len(CleanBases(sp_grid[i][9].v)) <= 20

\* the rows of the source sheet that became entries of a group
EntryRows == UNION {{sequence_groups[g].all_entries[e].row_number :
                        e \in 1..Len(sequence_groups[g].all_entries)} :
                    g \in 1..Len(sequence_groups)}

\* C23 as stated: a data row of which neither sequence field has more than 20
\* bases is not an entry of its group and is no row of the simplified output.
C23_ShortRowsDiscarded ==
    \A i \in 1..Len(sp_grid) :
        (SPIsData(i) /\ NoLongSequence(i))
        => /\ i \notin EntryRows
           /\ \A k \in 1..Len(sp_results) : sp_results[k].original_row_num # i

-----------------------------------------------------------------------------
(* Calls of GeneEditingProcessor._extract_red_from_cell_with_position on its own *)

\* most runs of a rich-text cell given to a call
MaxRuns == 3

\* the runs the cells are made of: red text in two spellings of the colour,
\* black text, text without font, and a red run without text
RichRuns ==
    { [font |-> <<"0", "0", "F", "F", "0", "0", "0", "0">>, text |-> <<"A", "g">>],
      [font |-> <<"F", "F", "F", "F", "0", "0", "0", "0">>, text |-> <<"c">>],
      [font |-> <<"0", "0", "0", "0", "0", "0", "0", "0">>, text |-> <<"C", "T">>],
      [font |-> <<>>, text |-> <<"T">>],
      [font |-> <<"0", "0", "F", "F", "0", "0", "0", "0">>, text |-> <<>>] }

\* the rich-text cells of at most MaxRuns runs
RichCells ==
    UNION {{[PlainCell(Concat([k \in 1..n |-> runs[k].text])) EXCEPT !.runs = runs] :
               runs \in [1..n -> RichRuns]} : n \in 1..MaxRuns}

\* one call
ExtractRedCall(cell) ==
    /\ rt_pc' = "returned"
    /\ rt_cell' = cell
    /\ rt_result' = ExtractRedFromCellWithPosition(cell)

\* one call, made once
NextRichText ==
    /\ rt_pc = "idle"
    /\ \E cell \in RichCells :
           /\ ExtractRedCall(cell)
           /\ UNCHANGED <<smVars, raVars, hlVars, spVars, rnVars, fileVars, vfVars, cfVars>>

SpecRichText == Init /\ [][NextRichText]_vars

-----------------------------------------------------------------------------
(* C24 *)

\* C24 as stated: the text returned for a rich-text cell is the concatenation
\* of its red runs, and it is the substring of the cell text that begins at the
\* returned start offset, for every sequence of runs.
C24_Original ==
    (rt_pc = "returned" /\ rt_result.text # <<>>)
    => /\ rt_result.text = RedRunText(rt_cell)
       /\ Slice(rt_cell.v, rt_result.start, rt_result.start + Len(rt_result.text))
              = rt_result.text

-----------------------------------------------------------------------------
(* C25 *)

\* C25: no row that precedes the first header is processed as data of a group:
\* ingestion keeps no entry for such a row, and the highlighter neither reports
\* nor fills such a row, whatever WT row and candidate rows stand there.
C25_NothingBeforeFirstHeader ==
    /\ \A i \in 1..Len(ws) :
           HLGroupOf(i) = 0 => (i \notin HighlightedIdx /\ ~RowIsFilled(i))
    /\ \A i \in EntryRows : SPGroupOf(i) >= 1

-----------------------------------------------------------------------------
(* C26 *)

\* C26: the highlighter and the ingestion classify every row of one worksheet
\* alike: a row is a header for _is_sequence_header iff parse_source_file opens
\* a group at it, and a row that became an entry is a WT row for process_file
\* iff _parse_data_row set is_wt.
C26_SameClassification ==
    /\ \A i \in 1..Len(sp_grid) :
           IsSequenceHeader(sp_grid[i]).is_header <=> SPIsHeader(i)
    /\ \A g \in 1..Len(sequence_groups) :
           \A e \in 1..Len(sequence_groups[g].all_entries) :
               LET entry == sequence_groups[g].all_entries[e]
               IN  entry.is_wt <=> IsWTRow(sp_grid[entry.row_number])

-----------------------------------------------------------------------------
(* C27 *)

\* C27: simplify_data emits no row of the source sheet more than once: no two
\* rows of the output, one emitted as WT and one as SNP included, have the
\* same original row number.
C27_EmittedOnce ==
    \A j, k \in 1..Len(sp_results) :
        j # k => sp_results[j].original_row_num # sp_results[k].original_row_num

-----------------------------------------------------------------------------
(* C28 *)

\* C28: process_file changes only the rows it reports in highlighted_rows:
\* the worksheet keeps the number and the order of its rows (every row keeps
\* the values of its cells other than the rewritten H cell), and a row that is
\* not reported (header, blank, WT or skipped data row) keeps its cells as
\* they were loaded, fills included.
C28_OnlyReportedRowsChange ==
    /\ Len(ws) = Len(ws_in)
    /\ \A i \in 1..Len(ws) :
           /\ Len(ws[i]) = Len(ws_in[i])
           /\ \A k \in 1..Len(ws[i]) : k # 8 => ws[i][k].v = ws_in[i][k].v
           /\ i \notin HighlightedIdx => ws[i] = ws_in[i]

\* the run has returned; one row was highlighted and a later candidate row of
\* the same group, naming a code of the colour table, was passed over
C28_Witness ==
    /\ hl_pc = "done"
    /\ \E i, j \in 1..Len(ws) :
           /\ i < j
           /\ i \in HighlightedIdx /\ ws[i] # ws_in[i]
           /\ j \notin HighlightedIdx
           /\ HLGroupOf(i) = HLGroupOf(j)
           /\ CommonMutations(ws_in[j]) # {}

-----------------------------------------------------------------------------
(* C29 *)

\* the value of the first cell of row i of a worksheet, None where the
\* worksheet has no such row
IdentifierAt(grid, i) == IF i <= Len(grid) THEN grid[i][1].v ELSE <<>>

\* C29: sort_gene_editing_file applied to the workbook it saved writes the same
\* identifier column and returns the same total_groups and total_rows as the
\* first application.
C29_RenumberIdempotent ==
    rn_report_again # NoReport =>
        /\ \A i \in 1..Len(ws_dst) :
               IdentifierAt(ws_dst_again, i) = IdentifierAt(ws_dst, i)
        /\ rn_report_again.total_groups = rn_report.total_groups
        /\ rn_report_again.total_rows = rn_report.total_rows

\* the first run merged two header rows into one group and gave a later group
\* another number than it had; the second run has returned
C29_Witness ==
    /\ rn_report_again # NoReport
    /\ rn_report.total_rows > rn_report.total_groups
    /\ rn_report.total_groups >= 2
    /\ \E i \in 1..Len(ws_src) : RNIsHeader(i) /\ ws_dst[i][1].v # ws_src[i][1].v

-----------------------------------------------------------------------------
(* C30 *)

\* the ingested groups with at least one highlighted entry
GroupsWithHighlight ==
    {g \in 1..Len(sequence_groups) :
        \E e \in 1..Len(sequence_groups[g].all_entries) :
            sequence_groups[g].all_entries[e].is_highlighted}

\* the ingested groups of which simplify_data emitted a row
GroupsWithOutput ==
    {g \in 1..Len(sequence_groups) : SimplifyGroup(sequence_groups[g]) # <<>>}

\* C30: in the summary, total_sequence_groups is the number of groups that
\* contributed output rows; of these groups, groups_without_highlights is the
\* number of those with no highlighted row and groups_with_highlights the
\* number of those with one at least; the latter is never negative and the
\* two add up to total_sequence_groups.
C30_SummaryCountsGroups ==
    sp_summary # NoReport =>
        /\ sp_summary.groups_without_highlights =
               Cardinality(GroupsWithOutput \ GroupsWithHighlight)
        /\ sp_summary.groups_with_highlights = Cardinality(GroupsWithHighlight)
        /\ sp_summary.groups_with_highlights >= 0
        /\ sp_summary.groups_with_highlights + sp_summary.groups_without_highlights
               = sp_summary.total_sequence_groups
        /\ sp_summary.total_sequence_groups = Cardinality(GroupsWithOutput)

====
